---------------------------- MODULE Spec2Model ----------------------------
(***************************************************************************)
(* A TLA+ model of Managerspelet, a turn-based football-management engine. *)
(*                                                                         *)
(* The module holds several specifications, one per subsystem:             *)
(*   SpecCup      the knockout cup state machine (core/cup_state.py)       *)
(*   SpecService  the service layer's load / mutate / save operations      *)
(*                (api/services.py)                                        *)
(*   SpecLeague   playing league rounds and the cup on a save file         *)
(*                (tools/cli.py, api/services.py, core/state.py)           *)
(*   SpecTransfer squads, the transfer market, junior offers and season    *)
(*                ends (core/economy.py, core/club.py,                     *)
(*                core/season_progression.py)                              *)
(*   SpecSeason   promotion, relegation, history and trophies at the end   *)
(*                of a season (core/season_progression.py)                 *)
(*   SpecSave     statistics, history and the cup across save and load     *)
(*                (core/state.py, core/serialize.py, core/stats.py)        *)
(*   SpecFixtures the fixture list of a division (core/fixtures.py)        *)
(*   SpecContract the contract built from a world (api/contracts.py)       *)
(*   SpecLogs     the match log, the ledger and the mailbox under the      *)
(*                service's operations (api/services.py, core/match.py)    *)
(*   SpecBots     the signing loop of the bot clubs, listing by listing    *)
(*                (core/economy.py)                                        *)
(*   SpecResim    league fixtures simulated again and after a rollover     *)
(*                (api/services.py, core/season_progression.py)            *)
(*   SpecMatch    one simulated match: lineups, minutes and team stats     *)
(*                (core/match.py)                                          *)
(* Each specification moves only its own variables and keeps the other     *)
(* subsystems' variables at their idle value.                              *)
(***************************************************************************)
EXTENDS Integers, Sequences, FiniteSets, TLC

VARIABLES
    \* ---- cup state machine (core/cup_state.py) ----
    entrants,        \* the list handed to create_cup_state
    cup_state,       \* CupState: rules, current_clubs, finished, winner
    round_results,   \* the list advance_cup_round returned last: <<home, away>> per leg
    advance_calls,   \* how many times advance_cup_round has been called
    \* ---- service layer (api/services.py) ----
    flags,             \* FeatureFlags of the service's context: mock_mode, persist_changes
    persist_requested, \* whether persist_changes was enabled explicitly (env or argument)
    disk,              \* the save file of the context: << >> (no file) or <<world>>
    mock_state,        \* GameService._mock_state: << >> (None) or <<world>>
    wrote_file,        \* whether GameState.save has written a file
    last_call,         \* the last service call and how it ended: [op, persist, ok]
    \* ---- a season on a save file (tools/cli.py, api/services.py) ----
    league_file,       \* the save file: << >> (no file) or <<world>>
    league_call,       \* the last command: [op, round, outcome]
    \* ---- squads and the transfer market (core/economy.py) ----
    gs,                \* GameState: players and cash_sek per club, transfer_list,
                       \* junior_offers, season
    weeks_run,         \* how many times process_weekly_economy has run
    deals_done,        \* how many transfers and junior signings have gone through
    tactics_calls,     \* how many times set_tactics has run
    season_world,      \* the league, table, history and trophies of a career
    save_world,        \* the GameState of a career with statistics, cup and history
    save_call,         \* the last operation on save_world and how it ended
    fixture_call,      \* a call of round_robin: its club list and its result
    contract_world,    \* the GameState handed to build_contract
    contract_call,     \* the last operation on contract_world
    log_world,         \* the match log, economy ledger and mailbox on file
    log_call,          \* the last service operation on log_world
    bot_call,          \* a call of evaluate_bot_signings: its world and its loop
    resim_world,       \* the career the service simulates league fixtures of
    resim_call,        \* the last service operation on resim_world
    match_call,        \* a call of simulate_match: the two clubs and the result
    tr_call            \* the last operation: [op, ok, deals, breaks, bid]

cupVars == <<entrants, cup_state, round_results, advance_calls>>

svcVars == <<flags, persist_requested, disk, mock_state, wrote_file, last_call>>

lgVars == <<league_file, league_call>>

trVars == <<gs, weeks_run, deals_done, tactics_calls, tr_call>>

seVars == <<season_world>>

svVars == <<save_world, save_call>>

fxVars == <<fixture_call>>

coVars == <<contract_world, contract_call>>

loVars == <<log_world, log_call>>

boVars == <<bot_call>>

rsVars == <<resim_world, resim_call>>

maVars == <<match_call>>

vars == <<cupVars, svcVars, lgVars, trVars, seVars, svVars, fxVars, coVars, loVars, boVars, rsVars, maVars>>

\* what each specification leaves alone
cupOthers == <<svcVars, lgVars, trVars, seVars, svVars, fxVars, coVars, loVars, boVars, rsVars, maVars>>

svcOthers == <<cupVars, lgVars, trVars, seVars, svVars, fxVars, coVars, loVars, boVars, rsVars, maVars>>

lgOthers == <<cupVars, svcVars, trVars, seVars, svVars, fxVars, coVars, loVars, boVars, rsVars, maVars>>

trOthers == <<cupVars, svcVars, lgVars, seVars, svVars, fxVars, coVars, loVars, boVars, rsVars, maVars>>

seOthers == <<cupVars, svcVars, lgVars, trVars, svVars, fxVars, coVars, loVars, boVars, rsVars, maVars>>

svOthers == <<cupVars, svcVars, lgVars, trVars, seVars, fxVars, coVars, loVars, boVars, rsVars, maVars>>

fxOthers == <<cupVars, svcVars, lgVars, trVars, seVars, svVars, coVars, loVars, boVars, rsVars, maVars>>

coOthers == <<cupVars, svcVars, lgVars, trVars, seVars, svVars, fxVars, loVars, boVars, rsVars, maVars>>

loOthers == <<cupVars, svcVars, lgVars, trVars, seVars, svVars, fxVars, coVars, boVars, rsVars, maVars>>

boOthers == <<cupVars, svcVars, lgVars, trVars, seVars, svVars, fxVars, coVars, loVars, rsVars, maVars>>

rsOthers == <<cupVars, svcVars, lgVars, trVars, seVars, svVars, fxVars, coVars, loVars, boVars, maVars>>

maOthers == <<cupVars, svcVars, lgVars, trVars, seVars, svVars, fxVars, coVars, loVars, boVars, rsVars>>

\* Python's None
None == 0

Range(s) == {s[i] : i \in DOMAIN s}

RECURSIVE Pow2(_)
Pow2(k) == IF k = 0 THEN 1 ELSE 2 * Pow2(k - 1)

(***************************************************************************)
(* Idle values: what a subsystem's variables hold while another            *)
(* specification runs                                                      *)
(***************************************************************************)

\* GameState.cup_state is None until a cup is started
CupIdle ==
    /\ entrants = << >>
    /\ cup_state = None
    /\ round_results = << >>
    /\ advance_calls = 0

\* a service that is constructed with the default flags and never called
SvcIdle ==
    /\ flags = [mock_mode |-> FALSE, persist_changes |-> TRUE]
    /\ persist_requested = FALSE
    /\ disk = << >>
    /\ mock_state = << >>
    /\ wrote_file = FALSE
    /\ last_call = [op |-> "none", persist |-> FALSE, ok |-> TRUE]

\* no save file yet, no command run
LgIdle ==
    /\ league_file = << >>
    /\ league_call = [op |-> "none", round |-> 0, outcome |-> "ok"]

\* no league generated yet
TrIdle ==
    /\ gs = [players |-> << >>, cash_sek |-> << >>, transfer_list |-> << >>,
             junior_offers |-> << >>, season |-> 1,
             captain_id |-> << >>, preferred_lineup |-> << >>,
             bench_order |-> << >>, substitution_plan |-> << >>]
    /\ weeks_run = 0
    /\ deals_done = 0
    /\ tactics_calls = 0
    /\ tr_call = [op |-> "none", ok |-> TRUE, deals |-> {}, breaks |-> FALSE,
                 bid |-> [buyer |-> 0, player_id |-> 0,
                          offer |-> [given |-> FALSE, percent |-> 0]]]

\* no career with a league table yet
SeIdle ==
    season_world = [rules |-> << >>, divisions |-> << >>, match_log |-> << >>,
                    table_snapshot |-> << >>, history |-> << >>,
                    trophies |-> << >>, season |-> 1]

\* no call of round_robin yet
FxIdle == fixture_call = << >>

\* no world handed to build_contract
CoIdle ==
    /\ contract_world = << >>
    /\ contract_call = "none"

\* no logs on file
LoIdle ==
    /\ log_world = << >>
    /\ log_call = [op |-> "none", ok |-> TRUE]

\* evaluate_bot_signings has not been called
BoIdle ==
    bot_call = << >>

\* no career whose fixtures are simulated
RsIdle ==
    /\ resim_world = << >>
    /\ resim_call = [op |-> "none", ok |-> TRUE]

\* no match is simulated
MaIdle ==
    match_call = << >>

\* no career with statistics yet
SvIdle ==
    /\ save_world = << >>
    /\ save_call = [op |-> "none", ok |-> TRUE]

(***************************************************************************)
(*                         Knockout cup                                    *)
(***************************************************************************)

\* Bounds of the cup model
MaxEntrants == 8
MaxGoals == 2
MaxAdvanceCalls == 5

Goals == 0..MaxGoals

\* while power < n: power *= 2
RECURSIVE NextPowerFrom(_, _)
NextPowerFrom(power, n) == IF power < n THEN NextPowerFrom(2 * power, n) ELSE power

NextPower(n) == NextPowerFrom(1, n)

\* current[:byes]
Prefix(s, k) == SubSeq(s, 1, IF k < Len(s) THEN k ELSE Len(s))

CreateCupState(clubs, rules) ==
    LET n == Len(clubs)
        power == NextPower(n)
        byes == power - n
        current == clubs \o (IF byes > 0 THEN Prefix(clubs, byes) ELSE << >>)
    IN  [ rules |-> rules,
          current_clubs |-> current,
          finished |-> (Len(current) <= 1),
          winner |-> (IF Len(current) = 1 THEN current[1] ELSE None) ]

\* _single_leg: a hosts b; a drawn match is decided by random.choice([a, b])
SingleLegWinner(a, b, hg, ag, coin) ==
    IF hg > ag THEN a ELSE IF ag > hg THEN b ELSE coin

\* _two_leg_tie: a hosts the first leg, b the second; aggregate goals decide
TwoLegWinner(a, b, r1h, r1a, r2h, r2a, coin) ==
    LET agg_a == r1h + r2a
        agg_b == r1a + r2h
    IN  IF agg_a > agg_b THEN a ELSE IF agg_b > agg_a THEN b ELSE coin

\* every club a tie between a and b can send through, over all score lines
TieWinners(a, b, legs) ==
    IF legs = 1
    THEN { SingleLegWinner(a, b, hg, ag, coin) :
             hg \in Goals, ag \in Goals, coin \in {a, b} }
    ELSE { TwoLegWinner(a, b, g[1], g[2], g[3], g[4], coin) :
             g \in Goals \X Goals \X Goals \X Goals, coin \in {a, b} }

\* the legs a tie between a and b adds to the returned results
TieLegs(a, b, legs) ==
    IF legs = 1 THEN << <<a, b>> >> ELSE << <<a, b>>, <<b, a>> >>

\* pairs: clubs[i] meets clubs[i + 1]; an odd tail meets None
CupPairs(clubs) ==
    [ k \in 1..((Len(clubs) + 1) \div 2) |->
        << clubs[2 * k - 1],
           IF 2 * k <= Len(clubs) THEN clubs[2 * k] ELSE None >> ]

CupLegs(rules, numPairs) ==
    IF numPairs = 1 /\ ~rules.final_two_legged
    THEN 1
    ELSE IF rules.two_legged THEN 2 ELSE 1

\* the winners lists the loop over the pairs can build
RECURSIVE WinnerLists(_, _)
WinnerLists(pairs, legs) ==
    IF pairs = << >>
    THEN { << >> }
    ELSE LET a == Head(pairs)[1]
             b == Head(pairs)[2]
             first == IF b = None THEN {a} ELSE TieWinners(a, b, legs)
         IN  { <<w>> \o rest : w \in first, rest \in WinnerLists(Tail(pairs), legs) }

RECURSIVE RoundLegs(_, _)
RoundLegs(pairs, legs) ==
    IF pairs = << >>
    THEN << >>
    ELSE LET a == Head(pairs)[1]
             b == Head(pairs)[2]
         IN  (IF b = None THEN << >> ELSE TieLegs(a, b, legs))
               \o RoundLegs(Tail(pairs), legs)

\* a cup that stops one round early
RoundFinishes_Early(winners) == Len(winners) <= 2

\* if len(winners) == 1: finished = True
RoundFinishes(winners) == Len(winners) = 1

\* create_cup_state, called with the first n clubs of a division
CupInit ==
    /\ \E n \in 1..MaxEntrants, two \in BOOLEAN, final_two \in BOOLEAN :
         /\ entrants = [i \in 1..n |-> i]
         /\ cup_state = CreateCupState([i \in 1..n |-> i],
                           [two_legged |-> two, final_two_legged |-> final_two])
    /\ round_results = << >>
    /\ advance_calls = 0

\* advance_cup_round on a cup that is finished or has at most one club left
AdvanceFinished ==
    /\ advance_calls < MaxAdvanceCalls
    /\ cup_state.finished \/ Len(cup_state.current_clubs) <= 1
    /\ cup_state' = [cup_state EXCEPT
                       !.finished = TRUE,
                       !.winner = IF cup_state.current_clubs # << >>
                                  THEN cup_state.current_clubs[1] ELSE None]
    /\ round_results' = << >>
    /\ advance_calls' = advance_calls + 1
    /\ UNCHANGED <<entrants, cupOthers>>

\* advance_cup_round playing one round
AdvanceRound ==
    /\ advance_calls < MaxAdvanceCalls
    /\ ~(cup_state.finished \/ Len(cup_state.current_clubs) <= 1)
    /\ LET pairs == CupPairs(cup_state.current_clubs)
           legs == CupLegs(cup_state.rules, Len(pairs))
       IN  /\ \E winners \in WinnerLists(pairs, legs) :
                cup_state' = [cup_state EXCEPT
                    !.current_clubs = winners,
                    !.finished = IF RoundFinishes(winners) THEN TRUE ELSE @,
                    !.winner = IF RoundFinishes(winners) THEN winners[1] ELSE @]
           /\ round_results' = RoundLegs(pairs, legs)
    /\ advance_calls' = advance_calls + 1
    /\ UNCHANGED <<entrants, cupOthers>>

CupNext == AdvanceFinished \/ AdvanceRound

\* a cup is run; the service is idle
CupSpecInit == CupInit /\ SvcIdle /\ LgIdle /\ TrIdle /\ SeIdle /\ SvIdle /\ FxIdle /\ CoIdle /\ LoIdle /\ BoIdle /\ RsIdle /\ MaIdle

SpecCup == CupSpecInit /\ [][CupNext]_vars

(***************************************************************************)
(* Claims about the cup                                                    *)
(***************************************************************************)

\* how often club c takes the field in the legs of the last round
RECURSIVE Appearances(_, _)
Appearances(c, legsPlayed) ==
    IF legsPlayed = << >>
    THEN 0
    ELSE (IF Head(legsPlayed)[1] = c THEN 1 ELSE 0)
         + (IF Head(legsPlayed)[2] = c THEN 1 ELSE 0)
         + Appearances(c, Tail(legsPlayed))

\* legs per tie of the round that produced the present current_clubs
LastRoundLegs == CupLegs(cup_state.rules, Len(cup_state.current_clubs))

TiesPlayed == Len(round_results) \div LastRoundLegs

\* clubs that went through the last round without a match
Walkovers == Len(cup_state.current_clubs) - TiesPlayed

Byes == NextPower(Len(entrants)) - Len(entrants)

FirstRoundPlayed == advance_calls = 1 /\ Len(entrants) >= 2

\* C7: with n entrants, n not a power of two, exactly (next power of two - n)
\* clubs go through the first round without playing, and no padding instance
\* plays: no club is on the field in more than one tie of that round.
C7_ByesAreWalkovers ==
    FirstRoundPlayed =>
        /\ Walkovers = Byes
        /\ \A c \in Range(entrants) :
              Appearances(c, round_results) <= LastRoundLegs

ClubsRemaining == Range(cup_state.current_clubs)

\* C8: finished iff exactly one club remains in current_clubs; winner is set
\* iff the cup is finished and one club remains, and is then that club.
C8_FinishedIffOneClubRemains ==
    /\ cup_state.finished <=> (Cardinality(ClubsRemaining) = 1)
    /\ (cup_state.winner # None)
          <=> (cup_state.finished /\ Cardinality(ClubsRemaining) = 1)
    /\ (cup_state.winner # None) => (ClubsRemaining = {cup_state.winner})

RECURSIVE Log2(_)
Log2(n) == IF n <= 1 THEN 0 ELSE 1 + Log2(n \div 2)

PowerOfTwoEntrants == Len(entrants) >= 2 /\ NextPower(Len(entrants)) = Len(entrants)

\* C9: a cup of 2^k distinct clubs (k >= 1) is not finished before the k-th
\* advance_round call, the clubs alive halve with every call, and from the
\* k-th call on it is finished with a winner among the entrants.
C9_PowerOfTwoCupRuns ==
    PowerOfTwoEntrants =>
        LET k == Log2(Len(entrants))
        IN  /\ (advance_calls < k) =>
                  /\ ~cup_state.finished
                  /\ cup_state.winner = None
                  /\ Len(cup_state.current_clubs) * Pow2(advance_calls) = Len(entrants)
            /\ (advance_calls >= k) =>
                  /\ cup_state.finished
                  /\ Len(cup_state.current_clubs) = 1
                  /\ cup_state.winner = cup_state.current_clubs[1]
                  /\ cup_state.winner \in Range(entrants)

\* four clubs, advance_round called twice: one winner
C9_Witness ==
    /\ Len(entrants) = 4
    /\ advance_calls = 2
    /\ cup_state.finished
    /\ cup_state.winner \in Range(entrants)
    /\ Len(round_results) = 1

(***************************************************************************)
(*                         Service layer                                   *)
(*                                                                         *)
(* The world the service loads and saves is reduced to its meta name, its  *)
(* calendar and the user club's cash and junior offers.  Every call uses   *)
(* the context's own file (path = None).  next_week is modelled for the    *)
(* weeks in which no bot signing involves the user's club.                 *)
(***************************************************************************)

\* Bounds of the service model
MaxWeek == 3
MaxSeason == 2
MaxOffers == 2

\* process_weekly_economy(gs, base_income=600_000)
WeeklyIncome == 600000

\* skill_open of the juniors on offer
JuniorSkills == {2, 5}

\* int(calculate_player_value(player) * 0.6) of a junior aged at most 20 with
\* neutral form and no traits: 400_000 * skill * 1.35 * 0.6
JuniorPrice(skill) == (400000 * skill * 81) \div 100

Names == {"Karriar", "Mock Career"}

\* FeatureFlags.from_env
FromEnv(features_mock, mock_mode_env, persist_env, disable_persist_env) ==
    LET mock == features_mock \/ mock_mode_env
        p1 == IF mock THEN FALSE ELSE TRUE
        p2 == IF persist_env THEN TRUE ELSE p1
        p3 == IF disable_persist_env THEN FALSE ELSE p2
    IN  [mock_mode |-> mock, persist_changes |-> p3]

\* FeatureFlags(mock_mode=..., persist_changes=...): the dataclass defaults
\* persist_changes to True when the argument is left out
FlagsCtor(mock_arg, persist_arg) ==
    [mock_mode |-> mock_arg,
     persist_changes |-> IF persist_arg = "default" THEN TRUE
                         ELSE persist_arg = "true"]

\* GameService.create: generated clubs start without cash, no junior offers
FreshWorld(name) ==
    [name |-> name, season |-> 1, week |-> 1, cash |-> 0, offers |-> << >>]

\* _build_mock_state: the demo world, one weekly economy run already applied
MockWorld ==
    [name |-> "Demo-karriar", season |-> 1, week |-> 1,
     cash |-> WeeklyIncome, offers |-> << >>]

\* _load_state raises ServiceError in normal mode when the file is missing
CanLoad == flags.mock_mode \/ disk # << >>

\* what _load_state returns: in mock mode the service's own _mock_state
\* object (built on first use), otherwise a fresh copy read from the file
Loaded ==
    IF flags.mock_mode
    THEN (IF mock_state = << >> THEN MockWorld ELSE mock_state[1])
    ELSE disk[1]

\* _save_state writes the file in normal mode, and in mock mode only when
\* flags.persist_changes is set
WritesFile == ~flags.mock_mode \/ flags.persist_changes

\* the call could not load a world: nothing changes
LoadRefused(op, persist) ==
    /\ last_call' = [op |-> op, persist |-> persist, ok |-> FALSE]
    /\ UNCHANGED <<flags, persist_requested, disk, mock_state, wrote_file>>

\* the end of a call that loaded a world and left it as w2 in memory;
\* saved tells whether _save_state(gs) was reached.  In mock mode the loaded
\* object is _mock_state itself, so w2 stays there whether saved or not.
Outcome(op, persist, ok, w2, saved) ==
    /\ last_call' = [op |-> op, persist |-> persist, ok |-> ok]
    /\ mock_state' = IF flags.mock_mode THEN <<w2>> ELSE mock_state
    /\ disk' = IF saved /\ WritesFile THEN <<w2>> ELSE disk
    /\ wrote_file' = (wrote_file \/ (saved /\ WritesFile))
    /\ UNCHANGED <<flags, persist_requested>>

\* caller code run on the yielded world: it sets gs.meta["name"] and then
\* either returns or raises
RunCode(code, w) == [w EXCEPT !.name = code.rename]

CallerCode == [rename : Names, raises : BOOLEAN]

\* offers.pop(index)
Pop(s, index) == SubSeq(s, 1, index) \o SubSeq(s, index + 2, Len(s))

\* the lists generate_junior_offers can produce for the user's club
OfferLists ==
    UNION { [1..n -> {JuniorPrice(k) : k \in JuniorSkills}] : n \in 1..MaxOffers }

\* the flags a context is built with: from the environment or by a caller
SvcInit ==
    /\ \/ \E fm \in BOOLEAN, mm \in BOOLEAN, pe \in BOOLEAN, de \in BOOLEAN :
            /\ flags = FromEnv(fm, mm, pe, de)
            /\ persist_requested = pe
       \/ \E mock_arg \in BOOLEAN, persist_arg \in {"default", "true", "false"} :
            /\ flags = FlagsCtor(mock_arg, persist_arg)
            /\ persist_requested = (persist_arg = "true")
    /\ disk = << >>
    /\ mock_state = << >>
    /\ wrote_file = FALSE
    /\ last_call = [op |-> "none", persist |-> FALSE, ok |-> TRUE]

\* GameService.create
SvcCreate ==
    /\ \E name \in Names :
         /\ last_call' = [op |-> "create", persist |-> TRUE, ok |-> TRUE]
         /\ mock_state' = IF flags.mock_mode THEN <<FreshWorld(name)>> ELSE mock_state
         /\ disk' = IF WritesFile THEN <<FreshWorld(name)>> ELSE disk
         /\ wrote_file' = (wrote_file \/ WritesFile)
    /\ UNCHANGED <<flags, persist_requested, svcOthers>>

\* GameService.dump
SvcDump ==
    /\ IF CanLoad
       THEN Outcome("dump", FALSE, TRUE, Loaded, FALSE)
       ELSE LoadRefused("dump", FALSE)
    /\ UNCHANGED svcOthers

\* GameService.apply(func, persist=...)
SvcApply ==
    /\ \E code \in CallerCode, persist \in BOOLEAN :
         IF CanLoad
         THEN Outcome("apply", persist, ~code.raises, RunCode(code, Loaded),
                      persist /\ ~code.raises)
         ELSE LoadRefused("apply", persist)
    /\ UNCHANGED svcOthers

\* with service.transaction(persist=...) as gs: <code>
\* the save sits in a finally clause, so it is reached when the code raises
SvcTransaction ==
    /\ \E code \in CallerCode, persist \in BOOLEAN :
         IF CanLoad
         THEN Outcome("transaction", persist, ~code.raises,
                      RunCode(code, Loaded), persist)
         ELSE LoadRefused("transaction", persist)
    /\ UNCHANGED svcOthers

\* with service.readonly_state() as gs: <code>
SvcReadonlyState ==
    /\ \E code \in CallerCode :
         IF CanLoad
         THEN Outcome("readonly_state", FALSE, ~code.raises,
                      RunCode(code, Loaded), FALSE)
         ELSE LoadRefused("readonly_state", FALSE)
    /\ UNCHANGED svcOthers

\* GameService.next_week
SvcNextWeek ==
    /\ IF CanLoad
       THEN /\ Loaded.week < MaxWeek
            /\ Outcome("next_week", TRUE, TRUE,
                       [Loaded EXCEPT !.cash = @ + WeeklyIncome, !.week = @ + 1],
                       TRUE)
       ELSE LoadRefused("next_week", TRUE)
    /\ UNCHANGED svcOthers

\* GameService.end_season: a new season with newly rolled junior offers
SvcEndSeason ==
    /\ IF CanLoad
       THEN /\ Loaded.season < MaxSeason
            /\ \E offers \in OfferLists :
                 Outcome("end_season", TRUE, TRUE,
                         [Loaded EXCEPT !.season = @ + 1, !.week = 1,
                                        !.offers = offers],
                         TRUE)
       ELSE LoadRefused("end_season", TRUE)
    /\ UNCHANGED svcOthers

\* GameService.accept_junior(club_name, index) for the user's club; limits_ok
\* is the verdict of check_squad_limits(club, add=[player]) on its roster.
\* accept_junior_offer pops the offer before it checks cash and limits.
SvcAcceptJunior ==
    /\ \E index \in 0..(MaxOffers - 1), limits_ok \in BOOLEAN :
         IF ~CanLoad
         THEN LoadRefused("accept_junior", TRUE)
         ELSE IF index >= Len(Loaded.offers)
         THEN Outcome("accept_junior", TRUE, FALSE, Loaded, FALSE)
         ELSE LET price == Loaded.offers[index + 1]
                  popped == [Loaded EXCEPT !.offers = Pop(@, index)]
              IN  IF Loaded.cash < price \/ ~limits_ok
                  THEN Outcome("accept_junior", TRUE, FALSE, popped, FALSE)
                  ELSE Outcome("accept_junior", TRUE, TRUE,
                               [popped EXCEPT !.cash = @ - price], TRUE)
    /\ UNCHANGED svcOthers

SvcNext ==
    \/ SvcCreate
    \/ SvcDump
    \/ SvcApply
    \/ SvcTransaction
    \/ SvcReadonlyState
    \/ SvcNextWeek
    \/ SvcEndSeason
    \/ SvcAcceptJunior

\* a service is used; no cup is started
SvcSpecInit == SvcInit /\ CupIdle /\ LgIdle /\ TrIdle /\ SeIdle /\ SvIdle /\ FxIdle /\ CoIdle /\ LoIdle /\ BoIdle /\ RsIdle /\ MaIdle

SpecService == SvcSpecInit /\ [][SvcNext]_vars

(***************************************************************************)
(* Claims about the service layer                                          *)
(***************************************************************************)

\* C4: a mutating service call that fails with an error, in the operation or
\* in caller code inside a transaction or apply scope, leaves the world on
\* disk exactly as it was before the call.
C4_FailedCallLeavesDiskUnchanged ==
    [][ (~last_call'.ok) => (disk' = disk) ]_vars

\* the world a later service call gets from _load_state
Observed == IF CanLoad THEN <<Loaded>> ELSE << >>

ScopeWithoutPersist(call) ==
    \/ call.op = "readonly_state"
    \/ call.op = "transaction" /\ ~call.persist

\* C5: what caller code changes inside a readonly_state scope or inside a
\* transaction(persist=False) scope is never persisted: the next service
\* call observes the world as it was before the scope was entered, in normal
\* mode and in mock mode.
C5_UnpersistedScopeLeavesWorld ==
    [][ ScopeWithoutPersist(last_call') => (Observed' = Observed) ]_vars

\* C6: with mock mode on and persist_changes never enabled explicitly, no
\* sequence of service calls writes a file.
C6_MockModeWritesNoFile ==
    (flags.mock_mode /\ ~persist_requested) => ~wrote_file

(***************************************************************************)
(*                 League rounds and the cup on a save file                *)
(*                                                                         *)
(* The world on file is reduced to the schedule's parameters, the          *)
(* current round, the cup's status, the match log and the clubs that have  *)
(* a season statistics entry.  Clubs are numbered 1..teams.                *)
(***************************************************************************)

\* Bounds of the league model
MaxTeams == 4
MaxPlayRound == 4

\* clubs.insert(1, clubs.pop())
Rotate(clubs) ==
    <<clubs[1], clubs[Len(clubs)]>> \o SubSeq(clubs, 2, Len(clubs) - 1)

\* zip(clubs[:mid], clubs[mid:]): the second half not reversed
Pairings_Unreversed(clubs) ==
    [k \in 1..(Len(clubs) \div 2) |-> <<clubs[k], clubs[(Len(clubs) \div 2) + k]>>]

\* zip(clubs[:mid], reversed(clubs[mid:]))
Pairings(clubs) ==
    [k \in 1..(Len(clubs) \div 2) |-> <<clubs[k], clubs[Len(clubs) + 1 - k]>>]

\* the matches of rounds i, i + 1, ... of the first leg
RECURSIVE FirstLeg(_, _)
FirstLeg(clubs, i) ==
    IF i > Len(clubs) - 1
    THEN << >>
    ELSE LET pairs == Pairings(clubs)
             played == SelectSeq(pairs, LAMBDA pr : pr[1] # None /\ pr[2] # None)
         IN  [k \in 1..Len(played) |->
                [home |-> played[k][1], away |-> played[k][2], round |-> i]]
             \o FirstLeg(Rotate(clubs), i + 1)

\* round_robin(clubs, double_round)
RoundRobin(clubs, double_round) ==
    IF Len(clubs) < 2
    THEN << >>
    ELSE LET padded == IF Len(clubs) % 2 = 1 THEN Append(clubs, None) ELSE clubs
             matches == FirstLeg(padded, 1)
             rounds == Len(padded) - 1
             extra == [k \in 1..Len(matches) |->
                         [home |-> matches[k].away, away |-> matches[k].home,
                          round |-> matches[k].round + rounds]]
         IN  IF double_round THEN matches \o extra ELSE matches

\* gs.fixtures_by_division of the first division
Fixtures(w) == RoundRobin([i \in 1..w.teams |-> i], w.double_round)

RECURSIVE MaxOf(_)
MaxOf(S) == IF S = {} THEN 0
            ELSE LET x == CHOOSE y \in S : TRUE
                     m == MaxOf(S \ {x})
                 IN  IF x > m THEN x ELSE m

\* _max_league_round
MaxLeagueRound(w) ==
    LET rounds == {m.round : m \in Range(Fixtures(w))}
    IN  IF rounds = {} THEN 1 ELSE MaxOf(rounds)

\* cmd_new: a new career on file
NewCareer(teams, double_round) ==
    [teams |-> teams, double_round |-> double_round, current_round |-> 1,
     cup |-> "none", match_log |-> << >>, club_stats |-> {}]

\* GameState.load: from_dict builds the state with cup_state=None whenever
\* the file holds fixtures_by_division, and never restores the saved cup
LoadWorld(w) == [w EXCEPT !.cup = "none"]

\* update_stats_from_result on a loaded world: the statistics entries read
\* from the file are plain dicts, so updating the entry of a club that
\* already has one raises AttributeError
StatsCrash(loaded, matches) ==
    \E k \in DOMAIN matches :
        matches[k].home \in loaded.club_stats \/ matches[k].away \in loaded.club_stats

RecordsOf(matches) ==
    [k \in DOMAIN matches |-> <<matches[k].round, matches[k].home, matches[k].away>>]

ClubsOf(matches) ==
    {matches[k].home : k \in DOMAIN matches} \cup {matches[k].away : k \in DOMAIN matches}

\* a command that ends without saving
LgRefused(op, round, outcome) ==
    /\ league_call' = [op |-> op, round |-> round, outcome |-> outcome]
    /\ UNCHANGED league_file

\* a command that saves gs
LgSaved(op, round, loaded) ==
    /\ league_call' = [op |-> op, round |-> round, outcome |-> "ok"]
    /\ league_file' = <<loaded>>

\* cmd_new
LgInit ==
    /\ \E teams \in {n \in 2..MaxTeams : n % 2 = 0}, double_round \in BOOLEAN :
         league_file = <<NewCareer(teams, double_round)>>
    /\ league_call = [op |-> "new", round |-> 0, outcome |-> "ok"]

\* cmd_start_cup
CmdStartCup ==
    /\ LET loaded == LoadWorld(league_file[1])
       IN  IF loaded.cup = "unfinished"
           THEN LgRefused("start_cup", 0, "state_conflict")
           ELSE LgSaved("start_cup", 0,
                        [loaded EXCEPT !.cup = IF NextPower(loaded.teams) <= 1
                                           THEN "finished" ELSE "unfinished"])
    /\ UNCHANGED lgOthers

\* cmd_play_cup_round
CmdPlayCupRound ==
    /\ LET loaded == LoadWorld(league_file[1])
       IN  IF loaded.cup = "none"
           THEN LgRefused("play_cup_round", 0, "error")
           ELSE \E done \in BOOLEAN :
                  LgSaved("play_cup_round", 0,
                          [loaded EXCEPT !.cup = IF done \/ loaded.cup = "finished"
                                             THEN "finished" ELSE "unfinished"])
    /\ UNCHANGED lgOthers

\* cmd_play_round
CmdPlayRound ==
    /\ LET loaded == LoadWorld(league_file[1])
           target_round == loaded.current_round
           todays == SelectSeq(Fixtures(loaded), LAMBDA m : m.round = target_round)
       IN  /\ target_round <= MaxPlayRound
           /\ IF loaded.cup = "unfinished" /\ target_round >= MaxLeagueRound(loaded)
              THEN LgRefused("play_round", target_round, "state_conflict")
              ELSE IF StatsCrash(loaded, todays)
              THEN LgRefused("play_round", target_round, "error")
              ELSE LgSaved("play_round", target_round,
                           [loaded EXCEPT !.match_log = @ \o RecordsOf(todays),
                                      !.club_stats = @ \cup ClubsOf(todays),
                                      !.current_round = target_round + 1])
    /\ UNCHANGED lgOthers

\* the fixture ids a caller can ask for: those of the schedule and one that
\* matches no fixture
NoSuchMatch == [home |-> None, away |-> None, round |-> 0]

\* GameService.simulate_match(match_id) on the same file
SvcSimulateMatch ==
    /\ LET loaded == LoadWorld(league_file[1])
       IN  \E match \in Range(Fixtures(loaded)) \cup {NoSuchMatch} :
             IF match = NoSuchMatch
             THEN LgRefused("simulate_match", 0, "error")
             ELSE IF StatsCrash(loaded, <<match>>)
             THEN LgRefused("simulate_match", match.round, "error")
             ELSE LET record == RecordsOf(<<match>>)[1]
                      existing == SelectSeq(loaded.match_log, LAMBDA r : r # record)
                  IN  LgSaved("simulate_match", match.round,
                              [loaded EXCEPT !.match_log = Append(existing, record),
                                         !.club_stats = @ \cup ClubsOf(<<match>>)])
    /\ UNCHANGED lgOthers

LgNext ==
    \/ CmdStartCup
    \/ CmdPlayCupRound
    \/ CmdPlayRound
    \/ SvcSimulateMatch

\* a career is created with cmd_new; no cup object is run, the service of
\* the other specification is idle
LgSpecInit == LgInit /\ CupIdle /\ SvcIdle /\ TrIdle /\ SeIdle /\ SvIdle /\ FxIdle /\ CoIdle /\ LoIdle /\ BoIdle /\ RsIdle /\ MaIdle

SpecLeague == LgSpecInit /\ [][LgNext]_vars

(***************************************************************************)
(* Claims about league rounds and the cup                                  *)
(***************************************************************************)

\* the cup of the world on file is started and not finished
CupUnfinishedOnFile == league_file[1].cup = "unfinished"

\* the command just run plays or simulates a fixture of the last league round
PlaysLastRound(call) ==
    /\ call.op \in {"play_round", "simulate_match"}
    /\ call.round = MaxLeagueRound(league_file[1])

\* C10: while a started cup is unfinished, a command that plays or simulates
\* a fixture of the last league round is rejected as a state conflict and
\* leaves the world unchanged.
C10_LastRoundWaitsForCup ==
    [][ (CupUnfinishedOnFile /\ PlaysLastRound(league_call'))
          => (league_call'.outcome = "state_conflict" /\ league_file' = league_file) ]_vars

(***************************************************************************)
(*          Squads, the transfer market, juniors and season ends           *)
(*                                                                         *)
(* A player is reduced to [id, position, age, skill_open]; form is         *)
(* neutral and players have no traits and no match statistics.  Clubs are  *)
(* numbered in the order of _all_clubs; club_name 0 is None.               *)
(***************************************************************************)

\* Bounds of the transfer model
NumClubs == 2
MinListings == 1
MaxEconomyWeeks == 1
MaxDeals == 2
MaxTacticsCalls == 1
MaxSeasonEnds == 1
MaxJuniors == 1
StartFunds == 5000000
LateFunds == 25000000

\* club.py
MIN_SQUAD_SIZE == 13
MAX_SQUAD_SIZE == 30

\* season_progression.py
RETIREMENT_AGE == 51

Clubs == 1..NumClubs

POSITIONS == <<"GK", "DF", "MF", "FW">>

\* MIN_POSITION_COUNTS
MinPositionCount(pos) ==
    CASE pos = "GK" -> 1
      [] pos = "DF" -> 4
      [] pos = "MF" -> 4
      [] pos = "FW" -> 2

Max2(a, b) == IF a > b THEN a ELSE b

\* count_positions
CountPositions(players, pos) ==
    Len(SelectSeq(players, LAMBDA p : p.position = pos))

\* project_squad: every player whose id is in remove is dropped
ProjectSquad(players, add, remove) ==
    LET remove_ids == {remove[i].id : i \in DOMAIN remove}
    IN  SelectSeq(players, LAMBDA p : p.id \notin remove_ids) \o add

\* validate_squad
ValidateSquad(players) ==
    /\ Len(players) >= MIN_SQUAD_SIZE
    /\ Len(players) <= MAX_SQUAD_SIZE
    /\ \A k \in DOMAIN POSITIONS :
          CountPositions(players, POSITIONS[k]) >= MinPositionCount(POSITIONS[k])

\* limits that only look at the size of the squad
CheckSquadLimits_SizeOnly(players, add, remove) ==
    LET projected == ProjectSquad(players, add, remove)
    IN  Len(projected) >= MIN_SQUAD_SIZE /\ Len(projected) <= MAX_SQUAD_SIZE

\* check_squad_limits
CheckSquadLimits(players, add, remove) ==
    ValidateSquad(ProjectSquad(players, add, remove))

\* calculate_player_value: the factor for the player's age, in percent
AgePercent(age) ==
    IF age <= 20 THEN 135
    ELSE IF age <= 23 THEN 115
    ELSE IF age <= 28 THEN 100
    ELSE IF age <= 31 THEN 85
    ELSE 70

\* calculate_player_value
CalculatePlayerValue(p) ==
    LET base == (400000 * Max2(1, p.skill_open) * AgePercent(p.age)) \div 100
        by_position == IF p.position = "GK" THEN (base \div 10) * 9 ELSE base
    IN  Max2(50000, by_position)

\* generate_club: ids start_id.. over the layout GK 2, DF 7, MF 7, FW 5
LayoutPosition(k) ==
    IF k <= 2 THEN "GK" ELSE IF k <= 9 THEN "DF" ELSE IF k <= 16 THEN "MF" ELSE "FW"

\* the generated squads considered: one veteran keeper of 50, all others 25;
\* the two keepers of skill 5, all others of skill 3
GeneratedAge(k) == IF k = 1 THEN 50 ELSE 25

GeneratedSkill(k) == IF k <= 2 THEN 5 ELSE 3

\* generate_club(name): generate_league passes no start_id, so every club's
\* players are numbered from 1
GenerateClub(start_id) ==
    [k \in 1..21 |->
        [id |-> start_id + k - 1, position |-> LayoutPosition(k),
         age |-> GeneratedAge(k), skill_open |-> GeneratedSkill(k)]]

\* generate_league followed by GameState(...)
GenerateLeague ==
    [players |-> [c \in Clubs |-> GenerateClub(1)],
     cash_sek |-> [c \in Clubs |-> 0],
     transfer_list |-> << >>,
     junior_offers |-> [c \in Clubs |-> << >>],
     season |-> 1,
     captain_id |-> [c \in Clubs |-> None],
     preferred_lineup |-> [c \in Clubs |-> << >>],
     bench_order |-> [c \in Clubs |-> << >>],
     substitution_plan |-> [c \in Clubs |-> << >>]]

\* award_sponsor_activity(gs, club, amount)
AwardSponsorActivity(g, club, amount) ==
    [g EXCEPT !.cash_sek[club] = @ + amount]

\* the largest id of a set of ids, 0 for none
MaxId(ids) == IF ids = {} THEN 0 ELSE CHOOSE x \in ids : \A y \in ids : y <= x

\* _next_player_id: one more than the largest id among the squads, the
\* junior offers and the free agents of gs.transfer_list
NextPlayerId(g) ==
    LET squad_ids == UNION { {g.players[c][i].id : i \in DOMAIN g.players[c]} :
                               c \in Clubs }
        offer_ids == UNION { {g.junior_offers[c][i].player_snapshot.id :
                                i \in DOMAIN g.junior_offers[c]} : c \in Clubs }
        agent_ids == {g.transfer_list[k].player_snapshot[1].id :
                        k \in {j \in DOMAIN g.transfer_list :
                                 g.transfer_list[j].player_snapshot # << >>}}
    IN  MaxId(squad_ids \cup offer_ids \cup agent_ids) + 1

\* the free agents and juniors the random generators are taken to produce
FreeAgentPositions == {"FW"}

FreeAgentProfile(pos) == [position |-> pos, age |-> 25, skill_open |-> 3]

JuniorPositions == {"GK"}

JuniorProfiles ==
    {[position |-> pos, age |-> 17, skill_open |-> skill] :
        pos \in JuniorPositions, skill \in JuniorSkills}

\* random.uniform(0.9, 1.2) of a club listing, in percent
PriceFactors == {100}

\* _create_free_agent_listing: the id is read from gs, whose transfer_list
\* refresh_transfer_market replaces only when it is done
FreeAgentListings(g) ==
    { [player_id |-> NextPlayerId(g), club_name |-> None,
       price_sek |-> CalculatePlayerValue(FreeAgentProfile(pos)),
       player_snapshot |-> << [id |-> NextPlayerId(g), position |-> pos,
                               age |-> FreeAgentProfile(pos).age,
                               skill_open |-> FreeAgentProfile(pos).skill_open] >>] :
        pos \in FreeAgentPositions }

\* sellable = [p for p in club.players if p.skill_open >= 4]
Sellable(g, c) == SelectSeq(g.players[c], LAMBDA p : p.skill_open >= 4)

\* a club listing of this player by this club is already in the list
ClubListed(listings, c, id) ==
    \E k \in DOMAIN listings :
        /\ listings[k].player_snapshot = << >>
        /\ listings[k].player_id = id
        /\ listings[k].club_name = c

\* the club listings one more attempt of the loop can append for club c
ClubListingsOf(g, listings, c) ==
    { [player_id |-> p.id, club_name |-> c,
       price_sek |-> (Max2(CalculatePlayerValue(p), 150000) * f) \div 100,
       player_snapshot |-> << >>] :
        p \in {q \in Range(Sellable(g, c)) : ~ClubListed(listings, c, q.id)},
        f \in PriceFactors }

\* an attempt of the loop can pass without a new listing: the club drawn
\* has nobody to sell, or the player drawn is listed already
CanWaste(g, listings) ==
    \E c \in Clubs :
        \/ Sellable(g, c) = << >>
        \/ \E p \in Range(Sellable(g, c)) : ClubListed(listings, c, p.id)

\* the lists the top-up loop can end with: it appends until min_listings is
\* reached, or stops short when every remaining attempt passes
RECURSIVE TopUp(_, _)
TopUp(g, listings) ==
    IF Len(listings) >= MinListings
    THEN {listings}
    ELSE (IF CanWaste(g, listings) THEN {listings} ELSE {})
         \cup UNION { TopUp(g, Append(listings, x)) :
                        x \in FreeAgentListings(g)
                              \cup UNION {ClubListingsOf(g, listings, c) : c \in Clubs} }

\* a listing stays when it is a free agent or its player is still at its club
ListingIsValid(g, listing) ==
    \/ listing.player_snapshot # << >>
    \/ /\ listing.club_name \in Clubs
       /\ \E i \in DOMAIN g.players[listing.club_name] :
             g.players[listing.club_name][i].id = listing.player_id

\* refresh_transfer_market: the worlds it can leave
RefreshTransferMarket(g) ==
    { [g EXCEPT !.transfer_list = listings] :
        listings \in TopUp(g, SelectSeq(g.transfer_list,
                                        LAMBDA l : ListingIsValid(g, l))) }

\* next(p for p in club.players if p.id == player_id): its index, 0 for none
FirstWithId(players, id) ==
    IF \E i \in DOMAIN players : players[i].id = id
    THEN CHOOSE i \in DOMAIN players :
            /\ players[i].id = id
            /\ \A j \in 1..(i - 1) : players[j].id # id
    ELSE 0

\* list.pop(i) / list.remove(x) at the 1-based position i
RemoveAt(s, i) == SubSeq(s, 1, i - 1) \o SubSeq(s, i + 1, Len(s))

\* the squad limits as the rules state them: 13 to 30 players, at least
\* one GK, four DF, four MF and two FW
SquadWithinLimits(players) ==
    /\ Len(players) >= 13
    /\ Len(players) <= 30
    /\ CountPositions(players, "GK") >= 1
    /\ CountPositions(players, "DF") >= 4
    /\ CountPositions(players, "MF") >= 4
    /\ CountPositions(players, "FW") >= 2

\* the player a listing is about: its snapshot, or the seller's first player
\* with the listed id; << >> when there is none
ListedPlayer(g, listing) ==
    IF listing.player_snapshot # << >>
    THEN listing.player_snapshot
    ELSE IF listing.club_name \in Clubs
              /\ FirstWithId(g.players[listing.club_name], listing.player_id) # 0
         THEN << g.players[listing.club_name]
                   [FirstWithId(g.players[listing.club_name], listing.player_id)] >>
         ELSE << >>

\* [pid for pid in seq if pid != player.id], for the ids of a set
WithoutIds(seq, ids) == SelectSeq(seq, LAMBDA pid : pid \notin ids)

\* the substitution rules that name none of the ids as player_in or player_out
RulesWithoutIds(plan, ids) ==
    SelectSeq(plan, LAMBDA rule : rule.player_in \notin ids /\ rule.player_out \notin ids)

\* purchase_listing(gs, buyer, index): how the call ends
PurchaseVerdict(g, buyer, index) ==
    IF ~(0 <= index /\ index < Len(g.transfer_list))
    THEN "IndexError"
    ELSE LET listing == g.transfer_list[index + 1]
             seller == listing.club_name
             player == ListedPlayer(g, listing)
         IN  IF g.cash_sek[buyer] < listing.price_sek THEN "no_cash"
             ELSE IF listing.player_snapshot # << >>
             THEN (IF CheckSquadLimits(g.players[buyer], player, << >>)
                   THEN "ok" ELSE "buyer_limits")
             ELSE IF seller \notin Clubs THEN "no_seller"
             ELSE IF seller = buyer THEN "own_player"
             ELSE IF player = << >> THEN "player_gone"
             ELSE IF ~CheckSquadLimits(g.players[buyer], player, << >>)
             THEN "buyer_limits"
             ELSE IF ~CheckSquadLimits(g.players[seller], << >>, player)
             THEN "seller_limits"
             ELSE "ok"

\* purchase_listing: the world after a purchase that went through
PurchaseListing(g, buyer, index) ==
    LET listing == g.transfer_list[index + 1]
        seller == listing.club_name
        player == ListedPlayer(g, listing)
        popped == RemoveAt(g.transfer_list, index + 1)
    IN  IF listing.player_snapshot # << >>
        THEN [g EXCEPT !.players[buyer] = @ \o player,
                       !.cash_sek[buyer] = @ - listing.price_sek,
                       !.transfer_list = popped]
        ELSE [g EXCEPT !.players[seller] =
                            RemoveAt(@, FirstWithId(@, listing.player_id)),
                       !.players[buyer] = @ \o player,
                       !.cash_sek[buyer] = @ - listing.price_sek,
                       !.cash_sek[seller] = @ + listing.price_sek,
                       !.transfer_list = popped]

\* evaluate_bot_signings from listing idx on: the worlds the loop can end
\* with, each with the purchases made.  A listing is passed over, or one of
\* the clubs that can afford it buys it; a purchase that raises leaves the
\* world and idx as they are.
RECURSIVE BotSignings(_, _, _)
BotSignings(g, deals, idx) ==
    IF idx >= Len(g.transfer_list)
    THEN {[world |-> g, deals |-> deals]}
    ELSE LET listing == g.transfer_list[idx + 1]
             candidates ==
                 {c \in Clubs :
                     /\ ~(listing.club_name # None /\ c = listing.club_name)
                     /\ g.cash_sek[c] * 10 > listing.price_sek * 13}
             buyers == {c \in candidates : PurchaseVerdict(g, c, idx) = "ok"}
         IN  BotSignings(g, deals, idx + 1)
             \cup UNION { BotSignings(PurchaseListing(g, b, idx),
                                      deals \cup {[buyer |-> b,
                                                   seller |-> listing.club_name]},
                                      idx) : b \in buyers }

\* apply_weekly_finances
ApplyWeeklyFinances(g) ==
    [g EXCEPT !.cash_sek = [c \in Clubs |-> g.cash_sek[c] + WeeklyIncome]]

\* process_weekly_economy: the outcomes of one week
ProcessWeeklyEconomy(g) ==
    UNION { BotSignings(refreshed, {}, 0) :
              refreshed \in RefreshTransferMarket(ApplyWeeklyFinances(g)) }

\* submit_transfer_bid: the first club, in the order of _all_clubs, that has
\* a player with this id; 0 for none
FindSeller(g, player_id) ==
    IF \E c \in Clubs : FirstWithId(g.players[c], player_id) # 0
    THEN CHOOSE c \in Clubs :
            /\ FirstWithId(g.players[c], player_id) # 0
            /\ \A d \in 1..(c - 1) : FirstWithId(g.players[d], player_id) = 0
    ELSE 0

\* the offers a caller makes: none (offer_price=None), or a percentage of
\* the player's market value
BidInputs ==
    {[given |-> FALSE, percent |-> 0],
     [given |-> TRUE, percent |-> 0],
     [given |-> TRUE, percent |-> 200]}

\* offer = int(offer_price) if given else int(max(market_value * 1.1, 50_000))
BidOffer(value, bid) ==
    IF bid.given
    THEN (value \div 100) * bid.percent
    ELSE Max2((value \div 10) * 11, 50000)

\* _club_table_position with an empty table: the rows sort by club name,
\* descending; clubs are named in the order of their numbers
TablePosition(c) == NumClubs + 1 - c

SumSkill(players) ==
    LET RECURSIVE Sum(_)
        Sum(i) == IF i = 0 THEN 0 ELSE players[i].skill_open + Sum(i - 1)
    IN  Sum(Len(players))

\* _seller_accepts_transfer: the threshold, in percent of the value
SellerThreshold(g, seller, player, offer, value) ==
    LET position == TablePosition(seller)
        total == NumClubs
        by_table == IF 4 * position <= total THEN 35
                    ELSE IF 2 * position <= total THEN 15
                    ELSE IF 10 * position >= 9 * total THEN -15
                    ELSE 0
        cash == g.cash_sek[seller]
        by_cash == (IF cash < value THEN -10 ELSE 0)
                   + (IF cash < offer \div 2 THEN -10 ELSE 0)
                   + (IF cash > 7500000 THEN 5 ELSE 0)
        roster == Len(g.players[seller])
        by_roster == IF roster <= 14 THEN 15 ELSE IF roster >= 23 THEN -5 ELSE 0
        skills == SumSkill(g.players[seller])
        by_skill == IF player.skill_open * roster >= skills + 2 * roster THEN 10
                    ELSE IF player.skill_open * roster <= skills - roster THEN -5
                    ELSE 0
    IN  Max2(85, 105 + by_table + by_cash + by_roster + by_skill)

\* _seller_accepts_transfer: ratio_offer >= threshold; when the two are
\* equal the floating-point sums decide, so either answer is taken
SellerAccepts(g, seller, player, offer, value) ==
    LET threshold == SellerThreshold(g, seller, player, offer, value)
    IN  IF offer * 100 > threshold * value THEN {TRUE}
        ELSE IF offer * 100 < threshold * value THEN {FALSE}
        ELSE BOOLEAN

\* submit_transfer_bid: how the call ends before the seller is asked
BidVerdict(g, buyer, player_id, bid) ==
    LET seller == FindSeller(g, player_id)
    IN  IF seller = 0 THEN "not_found"
        ELSE IF seller = buyer THEN "own_player"
        ELSE LET player == g.players[seller][FirstWithId(g.players[seller], player_id)]
                 offer == BidOffer(CalculatePlayerValue(player), bid)
             IN  IF offer <= 0 THEN "not_positive"
                 ELSE IF g.cash_sek[buyer] < offer THEN "no_cash"
                 ELSE IF ~CheckSquadLimits(g.players[buyer], <<player>>, << >>)
                 THEN "buyer_limits"
                 ELSE IF ~CheckSquadLimits(g.players[seller], << >>, <<player>>)
                 THEN "seller_limits"
                 ELSE "ok"

\* submit_transfer_bid: the world after an accepted bid; the seller's
\* lineup, bench and substitution plan lose the player's id
AcceptedBid(g, buyer, player_id, bid) ==
    LET seller == FindSeller(g, player_id)
        at == FirstWithId(g.players[seller], player_id)
        player == g.players[seller][at]
        offer == BidOffer(CalculatePlayerValue(player), bid)
    IN  [g EXCEPT !.players[seller] = RemoveAt(@, at),
                  !.players[buyer] = Append(@, player),
                  !.cash_sek[buyer] = @ - offer,
                  !.cash_sek[seller] = @ + offer,
                  !.preferred_lineup[seller] = WithoutIds(@, {player.id}),
                  !.bench_order[seller] = WithoutIds(@, {player.id}),
                  !.substitution_plan[seller] = RulesWithoutIds(@, {player.id}),
                  !.transfer_list = SelectSeq(@, LAMBDA l : l.player_id # player.id)]

\* roll_new_junior_offers for clubs c, c + 1, ...: every club gets 1 to
\* MaxJuniors new offers, numbered from _next_player_id
RECURSIVE GenerateJuniorOffers(_, _)
GenerateJuniorOffers(g, c) ==
    IF c > NumClubs
    THEN {g}
    ELSE UNION {
           GenerateJuniorOffers(
              [g EXCEPT !.junior_offers[c] =
                  [k \in 1..count |->
                     LET player == [id |-> NextPlayerId(g) + k - 1,
                                    position |-> profiles[k].position,
                                    age |-> profiles[k].age,
                                    skill_open |-> profiles[k].skill_open]
                     IN  [price_sek |-> (CalculatePlayerValue(player) \div 10) * 6,
                          player_snapshot |-> player,
                          expires_season |-> g.season + 1]]],
              c + 1) :
           count \in 1..MaxJuniors, profiles \in [1..MaxJuniors -> JuniorProfiles] }

\* roll_new_junior_offers
RollNewJuniorOffers(g) ==
    GenerateJuniorOffers(
        [g EXCEPT !.junior_offers =
            [c \in Clubs |-> SelectSeq(g.junior_offers[c],
                                       LAMBDA o : o.expires_season >= g.season)]],
        1)

\* end_season, for the squads: every player is a year older; a player of
\* RETIREMENT_AGE or more leaves, and with him every player of his club with
\* the same id and every listing with that id; the lineup, bench and
\* substitution plan of his club lose his id; skill bars are taken to stay
EndSeasonSquads(g) ==
    LET aged == [c \in Clubs |->
                   [i \in DOMAIN g.players[c] |->
                      [g.players[c][i] EXCEPT !.age = @ + 1]]]
        retired(c) == {aged[c][i].id :
                         i \in {j \in DOMAIN aged[c] : aged[c][j].age >= RETIREMENT_AGE}}
        retired_ids == UNION {retired(c) : c \in Clubs}
    IN  [g EXCEPT !.players = [c \in Clubs |->
                                 SelectSeq(aged[c], LAMBDA p : p.id \notin retired(c))],
                  !.preferred_lineup =
                      [c \in Clubs |-> WithoutIds(g.preferred_lineup[c], retired(c))],
                  !.bench_order =
                      [c \in Clubs |-> WithoutIds(g.bench_order[c], retired(c))],
                  !.substitution_plan =
                      [c \in Clubs |-> RulesWithoutIds(g.substitution_plan[c], retired(c))],
                  !.transfer_list =
                      SelectSeq(@, LAMBDA l : ~(l.player_id # None
                                                /\ l.player_id \in retired_ids)),
                  !.season = @ + 1]

\* end_season: the worlds it can leave
EndSeason(g) == RollNewJuniorOffers(EndSeasonSquads(g))

\* the world after award_sponsor_activity(gs, club, StartFunds) for every club
FundedWorld ==
    [GenerateLeague EXCEPT !.cash_sek = [c \in Clubs |-> StartFunds]]

\* the ids of the first club's players that the second club has bought
LateSold == <<2, 3, 4, 5, 10, 11, 12, 17>>

RECURSIVE BidsInTurn(_, _, _)
BidsInTurn(g, buyer, ids) ==
    IF ids = << >>
    THEN g
    ELSE LET bid == [given |-> TRUE, percent |-> 200]
         IN  BidsInTurn(IF BidVerdict(g, buyer, Head(ids), bid) = "ok"
                        THEN AcceptedBid(g, buyer, Head(ids), bid) ELSE g,
                        buyer, Tail(ids))

\* a later world: the second club, after award_sponsor_activity(gs, club,
\* LateFunds), has bought the players LateSold with bids of twice their
\* value; the first club is down to 13 players, the second has 29
LateWorld ==
    BidsInTurn(AwardSponsorActivity(GenerateLeague, 2, LateFunds), 2, LateSold)

\* the player ids bids are made for
BidIds == {1, 2}

\* the data set_tactics is called with: the veteran keeper as captain, first
\* in the lineup and on the bench and to be substituted, or the other keeper
TacticsData ==
    { [captain_id |-> a, preferred_lineup |-> <<a, 3>>, bench_order |-> <<a>>,
       substitution_plan |-> <<[player_in |-> 4, player_out |-> a]>>] :
        a \in BidIds }

\* no bid: the buyer, the player id and the offer of the last bid
NoBid == [buyer |-> 0, player_id |-> 0, offer |-> [given |-> FALSE, percent |-> 0]]

NoCall == [op |-> "none", ok |-> TRUE, deals |-> {}, breaks |-> FALSE, bid |-> NoBid]

TrInit ==
    /\ gs \in {GenerateLeague, FundedWorld, LateWorld}
    /\ weeks_run = 0
    /\ deals_done = 0
    /\ tactics_calls = 0
    /\ tr_call = NoCall

\* the projected squads of a move of player from seller (0: none) to buyer
\* break the limits
MoveBreaksLimits(g, buyer, seller, player) ==
    \/ ~SquadWithinLimits(ProjectSquad(g.players[buyer], player, << >>))
    \/ /\ seller \in Clubs
       /\ ~SquadWithinLimits(ProjectSquad(g.players[seller], << >>, player))

\* GameService.set_tactics(team_id, data): _apply_tactics stores the
\* captain, lineup, bench and substitution plan of data as they are given
TrSetTactics ==
    /\ tactics_calls < MaxTacticsCalls
    /\ \E club \in Clubs, data \in TacticsData :
         gs' = [gs EXCEPT !.captain_id[club] = data.captain_id,
                          !.preferred_lineup[club] = data.preferred_lineup,
                          !.bench_order[club] = data.bench_order,
                          !.substitution_plan[club] = data.substitution_plan]
    /\ tactics_calls' = tactics_calls + 1
    /\ tr_call' = [NoCall EXCEPT !.op = "set_tactics"]
    /\ UNCHANGED <<weeks_run, deals_done, trOthers>>

\* process_weekly_economy
TrProcessWeeklyEconomy ==
    /\ weeks_run < MaxEconomyWeeks
    /\ \E out \in ProcessWeeklyEconomy(gs) :
         /\ deals_done + Cardinality(out.deals) <= MaxDeals
         /\ gs' = out.world
         /\ deals_done' = deals_done + Cardinality(out.deals)
         /\ tr_call' = [bid |-> NoBid, op |-> "process_weekly_economy", ok |-> TRUE,
                        deals |-> out.deals, breaks |-> FALSE]
    /\ weeks_run' = weeks_run + 1
    /\ UNCHANGED <<tactics_calls, trOthers>>

\* purchase_listing(gs, buyer, index)
TrPurchaseListing ==
    /\ deals_done < MaxDeals
    /\ \E buyer \in Clubs, index \in 0..MinListings :
         LET verdict == PurchaseVerdict(gs, buyer, index)
             listing == gs.transfer_list[index + 1]
         IN  /\ gs' = IF verdict = "ok" THEN PurchaseListing(gs, buyer, index) ELSE gs
             /\ deals_done' = deals_done + (IF verdict = "ok" THEN 1 ELSE 0)
             /\ tr_call' =
                  [bid |-> NoBid, op |-> "purchase_listing", ok |-> (verdict = "ok"),
                   deals |-> IF verdict = "ok"
                             THEN {[buyer |-> buyer, seller |-> listing.club_name]}
                             ELSE {},
                   breaks |-> /\ verdict # "IndexError"
                              /\ listing.club_name # buyer
                              /\ ListedPlayer(gs, listing) # << >>
                              /\ MoveBreaksLimits(gs, buyer, listing.club_name,
                                                  ListedPlayer(gs, listing))]
    /\ UNCHANGED <<weeks_run, tactics_calls, trOthers>>

\* submit_transfer_bid(gs, buyer, player_id, offer_price)
TrSubmitTransferBid ==
    /\ deals_done < MaxDeals
    /\ \E buyer \in Clubs, player_id \in BidIds, bid \in BidInputs :
         LET verdict == BidVerdict(gs, buyer, player_id, bid)
             seller == FindSeller(gs, player_id)
             player == gs.players[seller][FirstWithId(gs.players[seller], player_id)]
             value == CalculatePlayerValue(player)
             breaks == /\ seller # 0
                       /\ seller # buyer
                       /\ MoveBreaksLimits(gs, buyer, seller, <<player>>)
             made == [buyer |-> buyer, player_id |-> player_id, offer |-> bid]
         IN  IF verdict # "ok"
             THEN /\ gs' = gs
                  /\ deals_done' = deals_done
                  /\ tr_call' = [bid |-> made, op |-> "submit_transfer_bid", ok |-> FALSE,
                                 deals |-> {}, breaks |-> breaks]
             ELSE \E accepted \in SellerAccepts(gs, seller, player,
                                                BidOffer(value, bid), value) :
                    /\ gs' = IF accepted
                             THEN AcceptedBid(gs, buyer, player_id, bid) ELSE gs
                    /\ deals_done' = deals_done + (IF accepted THEN 1 ELSE 0)
                    /\ tr_call' = [bid |-> made, op |-> "submit_transfer_bid", ok |-> accepted,
                                   deals |-> IF accepted
                                             THEN {[buyer |-> buyer, seller |-> seller]}
                                             ELSE {},
                                   breaks |-> breaks]
    /\ UNCHANGED <<weeks_run, tactics_calls, trOthers>>

\* the prices a payload of the service carries, as offers
PayloadPrices == {bid \in BidInputs : bid.given}

\* GameService.submit_transfer_bid(payload): a payload without a seller is
\* refused; otherwise the engine function is called with five positional
\* arguments (gs, buyer, seller, player_id, price), one more than it takes,
\* which raises TypeError before the state is saved
TrServiceSubmitTransferBid ==
    /\ deals_done < MaxDeals
    /\ \E buyer \in Clubs, seller \in Clubs \cup {None}, player_id \in BidIds,
          bid \in PayloadPrices :
         tr_call' = [bid |-> [buyer |-> buyer, player_id |-> player_id, offer |-> bid],
                     op |-> "service_submit_transfer_bid", ok |-> FALSE,
                     deals |-> {}, breaks |-> FALSE]
    /\ UNCHANGED <<gs, weeks_run, deals_done, tactics_calls, trOthers>>

\* accept_junior_offer(gs, club, index): the offer is popped before the cash
\* and the squad limits are checked
TrAcceptJuniorOffer ==
    /\ deals_done < MaxDeals
    /\ \E club \in Clubs, index \in 0..MaxJuniors :
         LET offers == gs.junior_offers[club]
         IN  IF ~(0 <= index /\ index < Len(offers))
             THEN /\ gs' = gs
                  /\ deals_done' = deals_done
                  /\ tr_call' = [bid |-> NoBid, op |-> "accept_junior_offer", ok |-> FALSE,
                                 deals |-> {}, breaks |-> FALSE]
             ELSE LET offer == offers[index + 1]
                      player == offer.player_snapshot
                      popped == [gs EXCEPT !.junior_offers[club] = RemoveAt(@, index + 1)]
                      accepted == /\ gs.cash_sek[club] >= offer.price_sek
                                  /\ CheckSquadLimits(gs.players[club], <<player>>, << >>)
                  IN  /\ gs' = IF accepted
                               THEN [popped EXCEPT !.cash_sek[club] = @ - offer.price_sek,
                                                   !.players[club] = Append(@, player)]
                               ELSE popped
                      /\ deals_done' = deals_done + (IF accepted THEN 1 ELSE 0)
                      /\ tr_call' = [bid |-> NoBid, op |-> "accept_junior_offer", ok |-> accepted,
                                     deals |-> IF accepted
                                               THEN {[buyer |-> club, seller |-> None]}
                                               ELSE {},
                                     breaks |-> MoveBreaksLimits(gs, club, None, <<player>>)]
    /\ UNCHANGED <<weeks_run, tactics_calls, trOthers>>

\* end_season
TrEndSeason ==
    /\ gs.season <= MaxSeasonEnds
    /\ \E g2 \in EndSeason(gs) : gs' = g2
    /\ tr_call' = [NoCall EXCEPT !.op = "end_season"]
    /\ UNCHANGED <<weeks_run, deals_done, tactics_calls, trOthers>>

TrNext ==
    \/ TrSetTactics
    \/ TrProcessWeeklyEconomy
    \/ TrPurchaseListing
    \/ TrSubmitTransferBid
    \/ TrServiceSubmitTransferBid
    \/ TrAcceptJuniorOffer
    \/ TrEndSeason

\* a league is generated; cup, service and save file of the other
\* specifications are idle
TrSpecInit == TrInit /\ CupIdle /\ SvcIdle /\ LgIdle /\ SeIdle /\ SvIdle /\ FxIdle /\ CoIdle /\ LoIdle /\ BoIdle /\ RsIdle /\ MaIdle

SpecTransfer == TrSpecInit /\ [][TrNext]_vars

(***************************************************************************)
(* Claims about squads and the transfer market                             *)
(***************************************************************************)

\* C1: after every successful purchase_listing, submit_transfer_bid or
\* accept_junior_offer the buying club and, when the player comes from a
\* club, the selling club have 13 to 30 players with at least 1 GK, 4 DF,
\* 4 MF and 2 FW; and an operation whose projected squads would break these
\* limits is rejected.
C1_TransfersKeepSquadLimits ==
    /\ \A d \in tr_call.deals :
          /\ SquadWithinLimits(gs.players[d.buyer])
          /\ (d.seller # None) => SquadWithinLimits(gs.players[d.seller])
    /\ tr_call.breaks => (~tr_call.ok /\ tr_call.deals = {})

\* an accepted bid has left the selling club with its last goalkeeper
C1_Witness ==
    /\ tr_call.op = "submit_transfer_bid"
    /\ tr_call.ok
    /\ \E d \in tr_call.deals :
          /\ d.seller # None
          /\ CountPositions(gs.players[d.seller], "GK") = 1
          /\ Len(gs.players[d.buyer]) = 22

\* C2: in every reachable world every club has 13 to 30 players and at
\* least 1 GK, 4 DF, 4 MF and 2 FW.
C2_EveryClubWithinLimits ==
    \A c \in Clubs : SquadWithinLimits(gs.players[c])

\* C3: each player id is in exactly one squad, once: no id is in the squads
\* of two clubs or twice in one squad.
C3_EachPlayerOwnedOnce ==
    \A c \in Clubs, d \in Clubs :
        \A i \in DOMAIN gs.players[c], j \in DOMAIN gs.players[d] :
            (gs.players[c][i].id = gs.players[d][j].id) => (c = d /\ i = j)

\* the last step was a bid, made through the engine function or the service
BidMade == tr_call'.op \in {"submit_transfer_bid", "service_submit_transfer_bid"}

\* the seller takes the bid for certain: the call gets as far as asking the
\* seller, whose threshold the offer exceeds
SellerTakesBid(g, made) ==
    /\ BidVerdict(g, made.buyer, made.player_id, made.offer) = "ok"
    /\ LET seller == FindSeller(g, made.player_id)
           player == g.players[seller][FirstWithId(g.players[seller], made.player_id)]
           value == CalculatePlayerValue(player)
       IN  SellerAccepts(g, seller, player, BidOffer(value, made.offer), value) = {TRUE}

\* C23: an accepted bid moves the player from the seller to the buyer, takes
\* the bid from the buyer's cash and adds it to the seller's; a declined bid
\* leaves squads and cash as they are; and so it is through the service as
\* well as through the engine function: a bid the seller takes is accepted.
C23_BidMovesPlayerAndCash ==
    [][ BidMade =>
          LET made == tr_call'.bid
              buyer == made.buyer
              seller == FindSeller(gs, made.player_id)
              at == FirstWithId(gs.players[seller], made.player_id)
              player == gs.players[seller][at]
              offer == BidOffer(CalculatePlayerValue(player), made.offer)
          IN  /\ tr_call'.ok =>
                    /\ gs'.players[seller] = RemoveAt(gs.players[seller], at)
                    /\ gs'.players[buyer] = Append(gs.players[buyer], player)
                    /\ gs'.cash_sek[buyer] = gs.cash_sek[buyer] - offer
                    /\ gs'.cash_sek[seller] = gs.cash_sek[seller] + offer
              /\ ~tr_call'.ok =>
                    /\ gs'.players = gs.players
                    /\ gs'.cash_sek = gs.cash_sek
              /\ SellerTakesBid(gs, made) => tr_call'.ok ]_vars



(***************************************************************************)
(*        Season end of the league: promotion, history, trophies           *)
(***************************************************************************)

\* Bounds of the season-end model
TeamsPerDiv == 2
MaxPromote == 1
MaxLeagueSeasons == 1
MaxScore == 1

\* LeagueRules.divisions_per_level: three levels of one division ("rak"), or
\* one division above two ("pyramid")
Layouts == { <<1, 1, 1>>, <<1, 2>> }

RECURSIVE SumSeq(_)
SumSeq(q) == IF q = << >> THEN 0 ELSE Head(q) + SumSeq(Tail(q))

\* the level of the k-th division of a layout
RECURSIVE LevelOf(_, _)
LevelOf(layout, k) ==
    IF k <= Head(layout) THEN 1 ELSE 1 + LevelOf(Tail(layout), k - Head(layout))

\* generate_league: the divisions in order of creation, which is the order
\* of their names; clubs are numbered in the order of their names
GenerateDivisions(layout) ==
    [k \in 1..SumSeq(layout) |->
        [name |-> k, level |-> LevelOf(layout, k),
         clubs |-> [i \in 1..TeamsPerDiv |-> (k - 1) * TeamsPerDiv + i]]]

\* the clubs of a list of divisions
ClubsIn(divisions) == UNION {Range(divisions[k].clubs) : k \in DOMAIN divisions}

\* a new career: GameService.create
NewSeasonWorld(layout, promote, relegate) ==
    LET divisions == GenerateDivisions(layout)
    IN  [rules |-> [divisions_per_level |-> layout, promote |-> promote,
                    relegate |-> relegate],
         divisions |-> divisions,
         match_log |-> << >>,
         table_snapshot |-> << >>,
         history |-> [c \in ClubsIn(divisions) |-> << >>],
         trophies |-> [c \in ClubsIn(divisions) |-> << >>],
         season |-> 1]

\* one club's row of the table a match log gives
TableRow(log, c) ==
    LET home == SelectSeq(log, LAMBDA r : r.home = c)
        away == SelectSeq(log, LAMBDA r : r.away = c)
        Pts(own, other) == IF own > other THEN 3 ELSE IF own = other THEN 1 ELSE 0
    IN  [pts |-> SumSeq([k \in DOMAIN home |-> Pts(home[k].home_goals, home[k].away_goals)])
                 + SumSeq([k \in DOMAIN away |-> Pts(away[k].away_goals, away[k].home_goals)]),
         gf |-> SumSeq([k \in DOMAIN home |-> home[k].home_goals])
                + SumSeq([k \in DOMAIN away |-> away[k].away_goals]),
         ga |-> SumSeq([k \in DOMAIN home |-> home[k].away_goals])
                + SumSeq([k \in DOMAIN away |-> away[k].home_goals])]

\* _rebuild_league_table: rows for the clubs of the league matches logged
RebuildLeagueTable(log) ==
    LET league == SelectSeq(log, LAMBDA r : r.competition = "league")
        seen == {league[k].home : k \in DOMAIN league}
                \cup {league[k].away : k \in DOMAIN league}
    IN  [c \in seen |-> TableRow(league, c)]

\* table_snapshot.get(club.name, zeros) as the sort key (pts, gd, gf, name)
SortKey(table, c) ==
    IF c \in DOMAIN table
    THEN <<table[c].pts, table[c].gf - table[c].ga, table[c].gf, c>>
    ELSE <<0, 0, 0, c>>

\* tuple comparison of two sort keys
KeyLess(a, b) ==
    \E k \in 1..4 : a[k] < b[k] /\ \A j \in 1..(k - 1) : a[j] = b[j]

\* sorted(clubs, key=SortKey): lowest first
Ascending(clubs, table) ==
    [k \in 1..Cardinality(clubs) |->
        CHOOSE c \in clubs :
            Cardinality({d \in clubs : KeyLess(SortKey(table, d), SortKey(table, c))})
                = k - 1]

Reversed(q) == [k \in 1..Len(q) |-> q[Len(q) + 1 - k]]

\* _division_standings: the clubs of a division, best first
DivisionStandings(division, table) ==
    Reversed(Ascending(Range(division.clubs), table))

\* the indices of the divisions of a level
DivisionsAt(divisions, level) ==
    {k \in DOMAIN divisions : divisions[k].level = level}

\* _level_rankings: the clubs of all divisions of a level, worst first
LevelRankings(divisions, level, table) ==
    Ascending(UNION {Range(divisions[k].clubs) : k \in DivisionsAt(divisions, level)},
              table)

Min2(a, b) == IF a < b THEN a ELSE b

\* min(divs, key=lambda d: (len(d.clubs), d.name))
FewestClubs(divisions, candidates) ==
    CHOOSE k \in candidates :
        \A j \in candidates :
            \/ Len(divisions[k].clubs) < Len(divisions[j].clubs)
            \/ Len(divisions[k].clubs) = Len(divisions[j].clubs) /\ k <= j

\* target.clubs.append(club) for the clubs of movers in turn
RECURSIVE PlaceClubs(_, _, _)
PlaceClubs(divisions, movers, level) ==
    IF movers = << >>
    THEN divisions
    ELSE LET target == FewestClubs(divisions, DivisionsAt(divisions, level))
         IN  PlaceClubs([divisions EXCEPT ![target].clubs = Append(@, Head(movers))],
                        Tail(movers), level)

\* _apply_promotion_relegation from the pair (level, level + 1) on
RECURSIVE SwapLevels(_, _, _, _)
SwapLevels(divisions, table, rules, level) ==
    LET max_level == Len(rules.divisions_per_level)
    IN  IF level >= max_level
        THEN divisions
        ELSE LET lower_ranked == Reversed(LevelRankings(divisions, level + 1, table))
                 upper_ranked == LevelRankings(divisions, level, table)
                 move == Min2(Min2(rules.promote, Len(lower_ranked)),
                              Min2(rules.relegate, Len(upper_ranked)))
                 up == SubSeq(lower_ranked, 1, move)
                 down == SubSeq(upper_ranked, 1, move)
                 removed == [k \in DOMAIN divisions |->
                               [divisions[k] EXCEPT !.clubs =
                                  SelectSeq(@, LAMBDA c : c \notin Range(up) \cup Range(down))]]
             IN  IF move <= 0
                 THEN SwapLevels(divisions, table, rules, level + 1)
                 ELSE SwapLevels(PlaceClubs(PlaceClubs(removed, up, level),
                                            down, level + 1),
                                 table, rules, level + 1)

ApplyPromotionRelegation(divisions, table, rules) ==
    IF Max2(rules.promote, rules.relegate) <= 0 \/ Len(rules.divisions_per_level) < 2
    THEN divisions
    ELSE SwapLevels(divisions, table, rules, 1)

\* the trophy end_season appends for the winner of a division
Trophy(division, season) ==
    [kind |-> IF division.level = 1 THEN "league" ELSE "division",
     division |-> division.name, season |-> season]

\* end_season, step 3, for divisions k, k + 1, ...: a SeasonRecord for every
\* club of the division and a trophy for the first of its standings
RECURSIVE RecordHistory(_, _)
RecordHistory(w, k) ==
    IF k > Len(w.divisions)
    THEN w
    ELSE LET standings == DivisionStandings(w.divisions[k], w.table_snapshot)
             PositionOf(c) == CHOOSE i \in DOMAIN standings : standings[i] = c
         IN  RecordHistory(
                [w EXCEPT
                   !.history = [c \in DOMAIN @ |->
                       IF c \in Range(standings)
                       THEN Append(@[c], [season |-> w.season,
                                          league_position |-> PositionOf(c)])
                       ELSE @[c]],
                   !.trophies = [c \in DOMAIN @ |->
                       IF standings # << >> /\ c = standings[1]
                       THEN Append(@[c], Trophy(w.divisions[k], w.season))
                       ELSE @[c]]],
                k + 1)

\* end_season, for the league: promotion and relegation first, then history
\* and trophies from the standings of the divisions as they are by then,
\* then the new season with an empty table
EndSeasonLeague(w) ==
    LET moved == [w EXCEPT !.divisions =
                     ApplyPromotionRelegation(@, w.table_snapshot, w.rules)]
        recorded == RecordHistory(moved, 1)
    IN  [recorded EXCEPT !.season = @ + 1, !.table_snapshot = << >>]

\* the final scores a simulation can give
Scores == (0..MaxScore) \X (0..MaxScore)

SeInit ==
    \E layout \in Layouts, promote \in 0..MaxPromote, relegate \in 0..MaxPromote :
        season_world = NewSeasonWorld(layout, promote, relegate)

\* the clubs with an entry in the club statistics of the world on file:
\* those of the matches logged
ClubsWithStats(log) ==
    {log[k].home : k \in DOMAIN log} \cup {log[k].away : k \in DOMAIN log}

\* GameService.simulate_match for a league fixture.  The statistics of the
\* loaded world are plain dicts, so update_stats_from_result raises for a
\* club that has an entry and nothing is saved; otherwise the record
\* replaces an earlier record of the same match, and the table is rebuilt
\* from the log
SeSimulateMatch ==
    /\ season_world.season <= MaxLeagueSeasons
    /\ \E k \in DOMAIN season_world.divisions, score \in Scores :
         \E match \in Range(RoundRobin(season_world.divisions[k].clubs, FALSE)) :
            LET record == [competition |-> "league", round |-> match.round,
                           home |-> match.home, away |-> match.away,
                           home_goals |-> score[1], away_goals |-> score[2]]
                existing == SelectSeq(season_world.match_log,
                                      LAMBDA r : ~(r.round = match.round
                                                   /\ r.home = match.home
                                                   /\ r.away = match.away))
                log == Append(existing, record)
            IN  IF {match.home, match.away} \cap ClubsWithStats(season_world.match_log) # {}
                THEN UNCHANGED season_world
                ELSE season_world' = [season_world EXCEPT
                                        !.match_log = log,
                                        !.table_snapshot = RebuildLeagueTable(log)]
    /\ UNCHANGED seOthers

\* end_season
SeEndSeason ==
    /\ season_world.season <= MaxLeagueSeasons
    /\ season_world' = EndSeasonLeague(season_world)
    /\ UNCHANGED seOthers

SeNext ==
    \/ SeSimulateMatch
    \/ SeEndSeason

SeSpecInit == SeInit /\ CupIdle /\ SvcIdle /\ LgIdle /\ TrIdle /\ SvIdle /\ FxIdle /\ CoIdle /\ LoIdle /\ BoIdle /\ RsIdle /\ MaIdle

SpecSeason == SeSpecInit /\ [][SeNext]_vars


(***************************************************************************)
(* Claims about the season end of the league                               *)
(***************************************************************************)

\* this step is an end_season of the league
SeasonCloses == season_world'.season = season_world.season + 1

\* the clubs of a level
ClubsAtLevel(w, level) ==
    UNION {Range(w.divisions[k].clubs) : k \in DivisionsAt(w.divisions, level)}

\* the best n clubs of a level's final ranking, none for the top level
TopOfLevel(w, level, n) ==
    IF level < 2 \/ level > Len(w.rules.divisions_per_level)
    THEN {}
    ELSE LET ranking == Reversed(LevelRankings(w.divisions, level, w.table_snapshot))
         IN  {ranking[k] : k \in 1..n}

\* the worst n clubs of a level's final ranking, none for the lowest level
BottomOfLevel(w, level, n) ==
    IF level < 1 \/ level >= Len(w.rules.divisions_per_level)
    THEN {}
    ELSE LET ranking == LevelRankings(w.divisions, level, w.table_snapshot)
         IN  {ranking[k] : k \in 1..n}

\* C13: at season end, between every two adjacent levels min(promote,
\* relegate) clubs are swapped, the best of the lower level's final ranking
\* for the worst of the upper level's; every level keeps its number of
\* clubs and the league keeps its clubs.
C13_AdjacentLevelsSwapClubs ==
    [][ SeasonCloses =>
          LET w == season_world
              n == Min2(w.rules.promote, w.rules.relegate)
          IN  \A level \in 1..Len(w.rules.divisions_per_level) :
                 ClubsAtLevel(season_world', level) =
                    (ClubsAtLevel(w, level)
                       \ (TopOfLevel(w, level, n) \cup BottomOfLevel(w, level, n)))
                    \cup TopOfLevel(w, level + 1, n)
                    \cup BottomOfLevel(w, level - 1, n) ]_vars

\* C14: at season end the club that is first in the final table of a
\* division, and no other club, receives that division's trophy, and every
\* club's new SeasonRecord holds its position in the division it played in.
C14_TrophyGoesToDivisionWinner ==
    [][ SeasonCloses =>
          \A k \in DOMAIN season_world.divisions :
             LET division == season_world.divisions[k]
                 standings == DivisionStandings(division, season_world.table_snapshot)
                 trophy == Trophy(division, season_world.season)
             IN  /\ \A c \in DOMAIN season_world'.trophies :
                       (trophy \in Range(season_world'.trophies[c])) <=> (c = standings[1])
                 /\ \A i \in DOMAIN standings :
                       LET records == season_world'.history[standings[i]]
                       IN  /\ Len(records) = Len(season_world.history[standings[i]]) + 1
                           /\ records[Len(records)] =
                                 [season |-> season_world.season,
                                  league_position |-> i] ]_vars

\* the level of the division a club is in
ClubLevel(w, c) ==
    LET k == CHOOSE d \in DOMAIN w.divisions : c \in Range(w.divisions[d].clubs)
    IN  w.divisions[k].level

\* C27: in one end_season no club's level changes by more than one: a club
\* relegated from level L to L + 1 is not relegated again to L + 2.
C27_LevelChangesByOneAtMost ==
    [][ SeasonCloses =>
          \A c \in ClubsIn(season_world.divisions) :
             /\ ClubLevel(season_world', c) <= ClubLevel(season_world, c) + 1
             /\ ClubLevel(season_world', c) >= ClubLevel(season_world, c) - 1 ]_vars

(***************************************************************************)
(* Claims about the season end of the squads                               *)
(***************************************************************************)

\* the ids of the players who reach RETIREMENT_AGE at the end of this season
RetiringIds(g) ==
    UNION { {g.players[c][i].id :
               i \in {j \in DOMAIN g.players[c] :
                        g.players[c][j].age + 1 >= RETIREMENT_AGE}} : c \in Clubs }

\* the player ids a club's lineup, bench and substitution plan name
ReferencedIds(g, c) ==
    Range(g.preferred_lineup[c]) \cup Range(g.bench_order[c])
    \cup UNION { {g.substitution_plan[c][k].player_in,
                  g.substitution_plan[c][k].player_out} :
                    k \in DOMAIN g.substitution_plan[c] }

\* this step is an end_season
SeasonEnds == gs'.season = gs.season + 1

\* C11: at season end every player is exactly one year older, no club keeps
\* a player older than 50, and no lineup, bench, substitution plan or
\* transfer listing names a player who retired.
C11_SeasonEndRetiresVeterans ==
    [][ SeasonEnds =>
          /\ \A c \in Clubs : \A i \in DOMAIN gs'.players[c] :
                /\ gs'.players[c][i].age < RETIREMENT_AGE
                /\ \E j \in DOMAIN gs.players[c] :
                      /\ gs.players[c][j].id = gs'.players[c][i].id
                      /\ gs'.players[c][i].age = gs.players[c][j].age + 1
          /\ \A c \in Clubs : ReferencedIds(gs', c) \cap RetiringIds(gs) = {}
          /\ \A k \in DOMAIN gs'.transfer_list :
                gs'.transfer_list[k].player_id \notin RetiringIds(gs) ]_vars

\* C12: a club's captain id, when set, is the id of a player the club owns.
C12_CaptainIsOwned ==
    \A c \in Clubs :
        (gs.captain_id[c] # None) =>
            \E i \in DOMAIN gs.players[c] : gs.players[c][i].id = gs.captain_id[c]

\* the ids of the players a club owns
OwnedIds(g, c) == {g.players[c][i].id : i \in DOMAIN g.players[c]}

\* C30: after a completed transfer, by purchase_listing or by
\* submit_transfer_bid, every id in the selling club's preferred_lineup,
\* bench_order and substitution_plan is the id of a player the club still
\* owns (given that it was so before the transfer).
C30_SellerTacticsNameOwnedPlayers ==
    [][ (tr_call'.op \in {"purchase_listing", "submit_transfer_bid"} /\ tr_call'.ok) =>
          \A d \in tr_call'.deals :
             (d.seller # None /\ ReferencedIds(gs, d.seller) \subseteq OwnedIds(gs, d.seller))
                => ReferencedIds(gs', d.seller) \subseteq OwnedIds(gs', d.seller) ]_vars


(***************************************************************************)
(*        Statistics, history and the cup across save and load             *)
(*                                                                         *)
(* A career is reduced to its season number, cup_state ("none" or          *)
(* "in_progress"), history store, match log and the six statistics maps.   *)
(* A statistics entry is reduced to [player_id | club_name, appearances |  *)
(* played, goals_for] and, in a career map, seasons.  An entry records how *)
(* it is held: as an object of the stats classes or as the dict that       *)
(* json.load gave; a key of a map records whether it is an int or a str.   *)
(***************************************************************************)

\* Bounds of the statistics model
MaxStatMatches == 2
MaxStatSeasons == 1

\* the clubs of the one division, and the player of a club who takes the field
StatClubs == <<1, 2>>

FieldPlayer(c) == 100 + c

IntKey(n) == [type |-> "int", value |-> n]

StrKey(n) == [type |-> "str", value |-> n]

\* an empty dict
EmptyMap == [k \in {} |-> None]

\* map[key] = value
Put(map, key, value) ==
    [k \in DOMAIN map \cup {key} |-> IF k = key THEN value ELSE map[k]]

\* getattr(entry, "seasons", 0) / entry.get("seasons", 0)
Seasons(entry) == IF "seasons" \in DOMAIN entry THEN entry.seasons ELSE 0

\* player_stats_to_dict_map: keys become str(pid); an object gives its
\* fields, a dict has none of the attributes and gives the defaults
PlayerStatsToDictMap(pmap) ==
    LET Source(sk) == IF IntKey(sk.value) \in DOMAIN pmap
                      THEN IntKey(sk.value) ELSE sk
        ToDict(k) == IF pmap[k].kind = "object"
                     THEN [pmap[k] EXCEPT !.kind = "dict"]
                     ELSE [kind |-> "dict", player_id |-> k, club_name |-> None,
                           appearances |-> 0]
    IN  [sk \in {StrKey(k.value) : k \in DOMAIN pmap} |-> ToDict(Source(sk))]

\* player_stats_from_dict_map: keys become int(k), entries PlayerSeasonStats
PlayerStatsFromDictMap(d) ==
    [k \in {IntKey(j.value) : j \in DOMAIN d} |->
        [kind |-> "object",
         player_id |-> d[StrKey(k.value)].player_id,
         club_name |-> d[StrKey(k.value)].club_name,
         appearances |-> d[StrKey(k.value)].appearances]]

\* club_stats_to_dict_map
ClubStatsToDictMap(cmap) ==
    [c \in DOMAIN cmap |->
        IF cmap[c].kind = "object"
        THEN [cmap[c] EXCEPT !.kind = "dict"]
        ELSE [kind |-> "dict", club_name |-> c, played |-> 0, goals_for |-> 0]]

\* club_stats_from_dict_map: entries become ClubSeasonStats
ClubStatsFromDictMap(d) ==
    [c \in DOMAIN d |->
        [kind |-> "object", club_name |-> d[c].club_name,
         played |-> d[c].played, goals_for |-> d[c].goals_for]]

\* player_stats_history_to_dict: keys become str(season), the maps go
\* through player_stats_to_dict_map
PlayerStatsHistoryToDict(history) ==
    LET Source(sk) == IF IntKey(sk.value) \in DOMAIN history
                      THEN IntKey(sk.value) ELSE sk
    IN  [sk \in {StrKey(k.value) : k \in DOMAIN history} |->
            PlayerStatsToDictMap(history[Source(sk)])]

\* club_stats_history_to_dict
ClubStatsHistoryToDict(history) ==
    LET Source(sk) == IF IntKey(sk.value) \in DOMAIN history
                      THEN IntKey(sk.value) ELSE sk
    IN  [sk \in {StrKey(k.value) : k \in DOMAIN history} |->
            ClubStatsToDictMap(history[Source(sk)])]

\* game_state_to_dict
GameStateToDict(w) ==
    [season |-> w.season,
     cup_state |-> w.cup_state,
     history |-> w.history,
     match_log |-> w.match_log,
     player_stats |-> PlayerStatsToDictMap(w.player_stats),
     player_career_stats |-> PlayerStatsToDictMap(w.player_career_stats),
     club_stats |-> ClubStatsToDictMap(w.club_stats),
     club_career_stats |-> ClubStatsToDictMap(w.club_career_stats),
     player_stats_history |-> PlayerStatsHistoryToDict(w.player_stats_history),
     club_stats_history |-> ClubStatsHistoryToDict(w.club_stats_history)]

\* GameState.from_dict for a file that has "fixtures_by_division", as every
\* saved file has: a new HistoryStore, no cup, the match log as MatchRecords
\* and the statistics as the dicts of the file
GameStateFromDict(data) ==
    [season |-> data.season,
     cup_state |-> "none",
     history |-> EmptyMap,
     match_log |-> data.match_log,
     player_stats |-> data.player_stats,
     player_career_stats |-> data.player_career_stats,
     club_stats |-> data.club_stats,
     club_career_stats |-> data.club_career_stats,
     player_stats_history |-> data.player_stats_history,
     club_stats_history |-> data.club_stats_history]

\* a new career
NewGameState ==
    [season |-> 1, cup_state |-> "none", history |-> EmptyMap,
     match_log |-> << >>,
     player_stats |-> EmptyMap, player_career_stats |-> EmptyMap,
     club_stats |-> EmptyMap, club_career_stats |-> EmptyMap,
     player_stats_history |-> EmptyMap, club_stats_history |-> EmptyMap]

\* update_stats_from_result raises AttributeError at "target.played += 1"
\* when the season or career entry of a club is a dict
StatsRaise(w, home, away) ==
    \E c \in {home, away} :
        \/ c \in DOMAIN w.club_stats /\ w.club_stats[c].kind = "dict"
        \/ c \in DOMAIN w.club_career_stats /\ w.club_career_stats[c].kind = "dict"

\* _ensure_cs / _ensure_cc and the counters of one club
ClubPlayed(cmap, c, gf, career) ==
    LET old == IF c \in DOMAIN cmap THEN cmap[c]
               ELSE IF career
                    THEN [kind |-> "object", club_name |-> c, played |-> 0,
                          goals_for |-> 0, seasons |-> 0]
                    ELSE [kind |-> "object", club_name |-> c, played |-> 0,
                          goals_for |-> 0]
    IN  Put(cmap, c, [old EXCEPT !.played = @ + 1, !.goals_for = @ + gf])

\* _ensure_ps / _ensure_pc and the appearance of one player: the lookup is
\* by the int p.id, so an entry under a str key is not found
PlayerAppeared(pmap, c, career) ==
    LET key == IntKey(FieldPlayer(c))
        old == IF key \in DOMAIN pmap THEN [pmap[key] EXCEPT !.club_name = c]
               ELSE IF career
                    THEN [kind |-> "object", player_id |-> key, club_name |-> c,
                          appearances |-> 0, seasons |-> 0]
                    ELSE [kind |-> "object", player_id |-> key, club_name |-> c,
                          appearances |-> 0]
    IN  Put(pmap, key, [old EXCEPT !.appearances = @ + 1])

\* update_stats_from_result and the append of its MatchRecord to the log
UpdateStatsFromResult(w, home, away, home_goals, away_goals) ==
    [w EXCEPT
       !.club_stats = ClubPlayed(ClubPlayed(@, home, home_goals, FALSE),
                                 away, away_goals, FALSE),
       !.club_career_stats = ClubPlayed(ClubPlayed(@, home, home_goals, TRUE),
                                        away, away_goals, TRUE),
       !.player_stats = PlayerAppeared(PlayerAppeared(@, home, FALSE), away, FALSE),
       !.player_career_stats = PlayerAppeared(PlayerAppeared(@, home, TRUE), away, TRUE),
       !.match_log = Append(@, [competition |-> "league", round |-> 1,
                                home |-> home, away |-> away,
                                home_goals |-> home_goals,
                                away_goals |-> away_goals])]

\* end_season, step 3: a SeasonRecord for every club of the division
HistoryOfSeason(w) ==
    LET standings == DivisionStandings([clubs |-> StatClubs],
                                       RebuildLeagueTable(w.match_log))
        Records(c) == IF c \in DOMAIN w.history THEN w.history[c] ELSE << >>
    IN  [c \in DOMAIN w.history \cup Range(standings) |->
            IF c \in Range(standings)
            THEN Append(Records(c),
                        [season |-> w.season,
                         league_position |->
                             CHOOSE i \in DOMAIN standings : standings[i] = c])
            ELSE Records(c)]

\* end_season, step 4, the player careers: a season more for the players of
\* the snapshot with an appearance
PlayerCareersAfter(career, snapshot) ==
    LET appeared == {k \in DOMAIN snapshot : snapshot[k].appearances > 0}
    IN  [k \in DOMAIN career \cup appeared |->
            IF k \notin appeared THEN career[k]
            ELSE IF k \notin DOMAIN career
            THEN [kind |-> "object", player_id |-> snapshot[k].player_id,
                  club_name |-> snapshot[k].club_name, appearances |-> 0,
                  seasons |-> 1]
            ELSE [career[k] EXCEPT !.club_name = snapshot[k].club_name,
                                   !.seasons = @ + 1]]

\* end_season, step 4, the club careers: a season more for an entry that
\* has the attribute "seasons", which a dict has not
ClubCareersAfter(career, snapshot) ==
    [c \in DOMAIN career \cup DOMAIN snapshot |->
        IF c \notin DOMAIN career
        THEN [kind |-> "object", club_name |-> c, played |-> 0, goals_for |-> 0,
              seasons |-> IF snapshot[c].played > 0 THEN 1 ELSE 0]
        ELSE IF c \in DOMAIN snapshot /\ career[c].kind = "object"
                /\ snapshot[c].played > 0
        THEN [career[c] EXCEPT !.seasons = @ + 1]
        ELSE career[c]]

\* end_season: history, the archive of the season's statistics, the careers,
\* then the new season without a cup
EndSeasonStats(w) ==
    LET player_snapshot_map == PlayerStatsFromDictMap(PlayerStatsToDictMap(w.player_stats))
        club_snapshot_map == ClubStatsFromDictMap(ClubStatsToDictMap(w.club_stats))
    IN  [w EXCEPT
           !.history = HistoryOfSeason(w),
           !.player_stats_history =
               IF DOMAIN player_snapshot_map # {}
               THEN Put(@, IntKey(w.season), player_snapshot_map) ELSE @,
           !.club_stats_history =
               IF DOMAIN club_snapshot_map # {}
               THEN Put(@, IntKey(w.season), club_snapshot_map) ELSE @,
           !.player_career_stats = PlayerCareersAfter(@, player_snapshot_map),
           !.club_career_stats = ClubCareersAfter(@, club_snapshot_map),
           !.player_stats = EmptyMap,
           !.club_stats = EmptyMap,
           !.season = @ + 1,
           !.cup_state = "none"]

SvInit ==
    /\ save_world = NewGameState
    /\ save_call = [op |-> "create", ok |-> TRUE]

\* a league match of the season is played and logged; when the statistics
\* raise, the caller ends without saving and the world stays as it was
SvPlayMatch ==
    /\ save_world.season <= MaxStatSeasons
    /\ Len(save_world.match_log) < MaxStatMatches
    /\ \E match \in Range(RoundRobin(StatClubs, TRUE)), score \in Scores :
         IF StatsRaise(save_world, match.home, match.away)
         THEN /\ save_call' = [op |-> "play", ok |-> FALSE]
              /\ UNCHANGED save_world
         ELSE /\ save_world' = UpdateStatsFromResult(save_world, match.home,
                                                     match.away, score[1], score[2])
              /\ save_call' = [op |-> "play", ok |-> TRUE]
    /\ UNCHANGED svOthers

\* the cup of the season is started
SvStartCup ==
    /\ save_world.season <= MaxStatSeasons
    /\ save_world.cup_state = "none"
    /\ save_world' = [save_world EXCEPT !.cup_state = "in_progress"]
    /\ save_call' = [op |-> "cup_start", ok |-> TRUE]
    /\ UNCHANGED svOthers

\* GameState.save followed by GameState.load
SvSaveLoad ==
    /\ save_world' = GameStateFromDict(GameStateToDict(save_world))
    /\ save_call' = [op |-> "save_load", ok |-> TRUE]
    /\ UNCHANGED svOthers

\* end_season
SvEndSeason ==
    /\ save_world.season <= MaxStatSeasons
    /\ save_world' = EndSeasonStats(save_world)
    /\ save_call' = [op |-> "end_season", ok |-> TRUE]
    /\ UNCHANGED svOthers

SvNext ==
    \/ SvPlayMatch
    \/ SvStartCup
    \/ SvSaveLoad
    \/ SvEndSeason

SvSpecInit == SvInit /\ CupIdle /\ SvcIdle /\ LgIdle /\ TrIdle /\ SeIdle /\ FxIdle /\ CoIdle /\ LoIdle /\ BoIdle /\ RsIdle /\ MaIdle

SpecSave == SvSpecInit /\ [][SvNext]_vars


(***************************************************************************)
(* Claims about statistics, history and the cup across save and load       *)
(***************************************************************************)

\* the values of a player statistics map, whatever holds them
PlayerValues(pmap) ==
    {[id |-> k.value, club_name |-> pmap[k].club_name,
      appearances |-> pmap[k].appearances] : k \in DOMAIN pmap}

\* the values of a club statistics map, whatever holds them
ClubValues(cmap) ==
    {[club_name |-> c, played |-> cmap[c].played, goals_for |-> cmap[c].goals_for] :
        c \in DOMAIN cmap}

\* the seasons a career map counts for a player id
PlayerSeasons(career, id) ==
    LET counts == {Seasons(career[k]) : k \in {j \in DOMAIN career : j.value = id}}
    IN  IF counts = {} THEN 0 ELSE CHOOSE n \in counts : \A m \in counts : m <= n

ClubSeasons(career, c) == IF c \in DOMAIN career THEN Seasons(career[c]) ELSE 0

\* the step is an end_season after at least one match of the season
StatsSeasonEnds ==
    /\ save_world'.season = save_world.season + 1
    /\ save_world.match_log # << >>

\* C15: after end_season in season s with a match played, the season maps
\* are empty, the histories of s hold the season maps as they were before the
\* call, and the seasons counter went up by one for exactly the players and
\* clubs that appeared, also when the world came from a save file
C15_SeasonEndArchivesStats ==
    [][StatsSeasonEnds =>
        LET s == IntKey(save_world.season)
            before == save_world
            after == save_world'
        IN  /\ DOMAIN after.player_stats = {}
            /\ DOMAIN after.club_stats = {}
            /\ s \in DOMAIN after.player_stats_history
            /\ PlayerValues(after.player_stats_history[s])
                   = PlayerValues(before.player_stats)
            /\ s \in DOMAIN after.club_stats_history
            /\ ClubValues(after.club_stats_history[s])
                   = ClubValues(before.club_stats)
            /\ \A c \in Range(StatClubs) :
                 /\ ClubSeasons(after.club_career_stats, c)
                      = ClubSeasons(before.club_career_stats, c)
                        + (IF \E e \in ClubValues(before.club_stats) :
                                  e.club_name = c /\ e.played > 0
                           THEN 1 ELSE 0)
                 /\ PlayerSeasons(after.player_career_stats, FieldPlayer(c))
                      = PlayerSeasons(before.player_career_stats, FieldPlayer(c))
                        + (IF \E e \in PlayerValues(before.player_stats) :
                                  e.id = FieldPlayer(c) /\ e.appearances > 0
                           THEN 1 ELSE 0)]_vars

\* a player statistics map as its typed keys and the values under them
PlayerMapView(pmap) ==
    [k \in DOMAIN pmap |->
        [club_name |-> pmap[k].club_name, appearances |-> pmap[k].appearances,
         seasons |-> Seasons(pmap[k])]]

\* a club statistics map as its keys and the values under them
ClubMapView(cmap) ==
    [c \in DOMAIN cmap |->
        [played |-> cmap[c].played, goals_for |-> cmap[c].goals_for,
         seasons |-> Seasons(cmap[c])]]

\* the semantic fields of a world: what it holds, not how an entry is held
SemanticFields(w) ==
    [season |-> w.season,
     cup_state |-> w.cup_state,
     history |-> w.history,
     match_log |-> w.match_log,
     player_stats |-> PlayerMapView(w.player_stats),
     player_career_stats |-> PlayerMapView(w.player_career_stats),
     club_stats |-> ClubMapView(w.club_stats),
     club_career_stats |-> ClubMapView(w.club_career_stats),
     player_stats_history |->
         [k \in DOMAIN w.player_stats_history |->
             PlayerMapView(w.player_stats_history[k])],
     club_stats_history |->
         [k \in DOMAIN w.club_stats_history |->
             ClubMapView(w.club_stats_history[k])]]

\* C18: a world saved and loaded back is equal to the world before over its
\* semantic fields: the cup in progress, the history store, the season and
\* career statistics with their int player-id keys, and the stats histories.
C18_SaveLoadRoundTrip ==
    [][save_call'.op = "save_load" =>
        SemanticFields(save_world') = SemanticFields(save_world)]_vars


(***************************************************************************)
(*                 The fixture list of one division                        *)
(*                                                                         *)
(* round_robin is applied to the list of clubs a division holds, which it  *)
(* changes in place: a None is appended to a list of odd length and the    *)
(* list is rotated once per round.                                         *)
(***************************************************************************)

\* Bounds of the fixture model
MaxClubs == 5
MaxScheduleCalls == 2

\* the lists of N distinct clubs, 2 <= N <= MaxClubs, in any order
ClubLists ==
    UNION {{q \in [1..n -> 1..MaxClubs] : \A i, j \in 1..n : i # j => q[i] # q[j]} :
              n \in 2..MaxClubs}

\* the list after the rotations of rounds i, i + 1, ...
RECURSIVE RotatedFrom(_, _)
RotatedFrom(clubs, i) ==
    IF i > Len(clubs) - 1 THEN clubs ELSE RotatedFrom(Rotate(clubs), i + 1)

\* the caller's list after round_robin(clubs)
ClubsAfterRoundRobin(clubs) ==
    IF Len(clubs) < 2
    THEN clubs
    ELSE RotatedFrom(IF Len(clubs) % 2 = 1 THEN Append(clubs, None) ELSE clubs, 1)

FxInit ==
    \E clubs \in ClubLists, double_round \in BOOLEAN :
        fixture_call = [clubs |-> clubs, double_round |-> double_round,
                        matches |-> << >>, calls |-> 0]

\* build_league_schedule, and _build_new_league_schedule a season later:
\* round_robin on the division's own list
FxRoundRobin ==
    /\ fixture_call.calls < MaxScheduleCalls
    /\ fixture_call' =
          [fixture_call EXCEPT
             !.matches = RoundRobin(fixture_call.clubs, fixture_call.double_round),
             !.clubs = ClubsAfterRoundRobin(@),
             !.calls = @ + 1]
    /\ UNCHANGED fxOthers

FxNext == FxRoundRobin

FxSpecInit == FxInit /\ CupIdle /\ SvcIdle /\ LgIdle /\ TrIdle /\ SeIdle /\ SvIdle /\ CoIdle /\ LoIdle /\ BoIdle /\ RsIdle /\ MaIdle

SpecFixtures == FxSpecInit /\ [][FxNext]_vars


(***************************************************************************)
(* Claims about the fixture list                                           *)
(***************************************************************************)

\* the clubs of the list round_robin was given
ScheduledClubs == Range(fixture_call.clubs) \ {None}

\* the matches of the schedule with a given home and away club
MatchesOf(home, away) ==
    {k \in DOMAIN fixture_call.matches :
        fixture_call.matches[k].home = home /\ fixture_call.matches[k].away = away}

\* C20: for every N >= 2, even or odd, the double-round schedule of N clubs
\* has exactly N * (N - 1) matches and every ordered (home, away) pair of
\* distinct clubs appears exactly once.
C20_DoubleRoundSchedule ==
    (fixture_call.calls > 0 /\ fixture_call.double_round) =>
        /\ Len(fixture_call.matches)
              = Cardinality(ScheduledClubs) * (Cardinality(ScheduledClubs) - 1)
        /\ \A home \in ScheduledClubs, away \in ScheduledClubs :
              home # away => Cardinality(MatchesOf(home, away)) = 1

\* a double-round schedule of an odd number of clubs, at least three, has
\* been built
C20_Witness ==
    /\ fixture_call.calls > 0
    /\ fixture_call.double_round
    /\ Cardinality(ScheduledClubs) % 2 = 1
    /\ Cardinality(ScheduledClubs) >= 3
    /\ Len(fixture_call.matches) > 0

\* C28: building a league schedule, at creation or at a rollover, does not
\* modify the club list of the division: the same clubs in the same order and
\* no placeholder entry, for even and for odd numbers of clubs.
C28_ScheduleKeepsClubList ==
    [][ fixture_call'.calls = fixture_call.calls + 1 =>
          /\ fixture_call'.clubs = fixture_call.clubs
          /\ None \notin Range(fixture_call'.clubs) ]_vars


(***************************************************************************)
(*                 The contract built from a world                         *)
(*                                                                         *)
(* The world is reduced to the fields ensure_containers looks at: four of  *)
(* its containers, each None ("none"), empty or filled, its meta and its   *)
(* options.  A meta that is a dict is reduced to its version and           *)
(* career_id, "missing" when the key is absent.                            *)
(***************************************************************************)

\* what a container field of a GameState can hold
ContainerValues == {"none", "empty", "filled"}

\* what gs.meta can hold
MetaValues ==
    [is_dict : {TRUE}, version : {"missing", "1.0"},
     career_id : {"missing", "", "c-1"}]
    \cup {[is_dict |-> FALSE, version |-> "missing", career_id |-> "missing"]}

\* what gs.options can hold: None or a dict
OptionsValues == {"none", "dict"}

\* f"c-{uuid4().hex[:8]}"
NewCareerIds == {"c-2", "c-3"}

\* ensure_containers: a container that is None becomes empty, a meta that
\* is no dict is replaced, a missing version or career_id is filled in, and
\* options that are no dict are replaced by the defaults
EnsureContainers(w, new_id) ==
    LET Ensured(c) == IF c = "none" THEN "empty" ELSE c
    IN  [table_snapshot |-> Ensured(w.table_snapshot),
         match_log |-> Ensured(w.match_log),
         history |-> Ensured(w.history),
         mailbox |-> Ensured(w.mailbox),
         meta |-> IF ~w.meta.is_dict
                  THEN [is_dict |-> TRUE, version |-> "1.0", career_id |-> new_id]
                  ELSE [is_dict |-> TRUE,
                        version |-> IF w.meta.version = "missing"
                                    THEN "1.0" ELSE w.meta.version,
                        career_id |-> IF w.meta.career_id \in {"missing", ""}
                                      THEN new_id ELSE w.meta.career_id],
         options |-> IF w.options = "none" THEN "dict" ELSE w.options]

CoInit ==
    /\ contract_world \in
          [table_snapshot : ContainerValues, match_log : ContainerValues,
           history : ContainerValues, mailbox : ContainerValues,
           meta : MetaValues, options : OptionsValues]
    /\ contract_call = "none"

\* build_contract: its first statement is gs.ensure_containers(); the rest
\* reads the world and writes only to the contract
CoBuildContract ==
    /\ \E new_id \in NewCareerIds :
          contract_world' = EnsureContainers(contract_world, new_id)
    /\ contract_call' = "build_contract"
    /\ UNCHANGED coOthers

CoNext == CoBuildContract

CoSpecInit == CoInit /\ CupIdle /\ SvcIdle /\ LgIdle /\ TrIdle /\ SeIdle /\ SvIdle /\ FxIdle /\ LoIdle /\ BoIdle /\ RsIdle /\ MaIdle

SpecContract == CoSpecInit /\ [][CoNext]_vars


(***************************************************************************)
(* Claims about the contract                                               *)
(***************************************************************************)

\* C19: build_contract never mutates the world: every field of the world,
\* also of a world with missing or empty containers or meta fields, is the
\* same after the call as before it.
C19_BuildContractKeepsWorld ==
    [][contract_call' = "build_contract" => contract_world' = contract_world]_vars


(***************************************************************************)
(*          The match log, the economy ledger and the mailbox              *)
(*                                                                         *)
(* The world on file is reduced to its calendar week and its three lists.  *)
(* A MatchRecord is reduced to its round, clubs, goals and half-time       *)
(* goals, a ledger entry to its week, club and amount, a mail to its id    *)
(* and its unread flag.  A simulated match is reduced to its goals: the    *)
(* side that scores, the id of the scorer and the half.                    *)
(***************************************************************************)

\* Bounds of the log model
MaxGoalsLogged == 1
MaxLogWeeks == 1

\* the clubs of the one division
LogClubs == <<1, 2, 3, 4>>

\* the ids of a generated squad, the same in every club
SquadIds == {GenerateClub(1)[k].id : k \in 1..21}

\* the scorer of a goal is the first forward of the side that scores
StrikerId ==
    GenerateClub(1)[CHOOSE k \in 1..21 :
                        /\ GenerateClub(1)[k].position = "FW"
                        /\ \A j \in 1..(k - 1) : GenerateClub(1)[j].position # "FW"].id

\* the goals a simulation can give: up to MaxGoalsLogged, each by one side
\* in one half
GoalLists ==
    UNION {[1..n -> [side : {"home", "away"}, player_id : {StrikerId},
                     first_half : BOOLEAN]] : n \in 0..MaxGoalsLogged}

\* the number of entries of a list that satisfy a test
CountOf(q, Test(_)) == Cardinality({k \in DOMAIN q : Test(q[k])})

\* simulate_match: the half-time score counts the goals up to minute 45 by
\* the scorer's id, for the home side when the id is in the home squad,
\* else for the away side when it is in the away squad
HalftimeGoals(goals, home_ids, away_ids) ==
    [home |-> CountOf(goals, LAMBDA g : g.first_half /\ g.player_id \in home_ids),
     away |-> CountOf(goals, LAMBDA g : /\ g.first_half
                                        /\ g.player_id \notin home_ids
                                        /\ g.player_id \in away_ids)]

\* update_stats_from_result: the MatchRecord of a result
MatchRecordOf(match, goals) ==
    [competition |-> "league", round |-> match.round,
     home |-> match.home, away |-> match.away,
     home_goals |-> CountOf(goals, LAMBDA g : g.side = "home"),
     away_goals |-> CountOf(goals, LAMBDA g : g.side = "away"),
     halftime_home |-> HalftimeGoals(goals, SquadIds, SquadIds).home,
     halftime_away |-> HalftimeGoals(goals, SquadIds, SquadIds).away]

\* _match_record_id / _make_match_id
MatchId(r) == <<r.competition, r.round, r.home, r.away>>

\* the payloads of set_match_result considered: one of the two scores
Payloads ==
    [key : {"home_goals", "away_goals"}, value : {-1, 0}]

\* set_match_result on the first record with the id: the scores named in
\* the payload are overwritten with int(value)
WithResult(log, match_id, payload) ==
    LET idx == CHOOSE i \in DOMAIN log :
                   /\ MatchId(log[i]) = match_id
                   /\ \A j \in 1..(i - 1) : MatchId(log[j]) # match_id
    IN  IF payload.key = "home_goals"
        THEN [log EXCEPT ![idx].home_goals = payload.value]
        ELSE [log EXCEPT ![idx].away_goals = payload.value]

\* apply_weekly_finances: a ledger entry for every club
WeeklyLedger(ledger, week) ==
    ledger \o [k \in DOMAIN LogClubs |->
                  [week |-> week, club |-> LogClubs[k], label |-> "weekly_sponsor",
                   amount |-> WeeklyIncome]]

\* the mail a save file can carry; no operation of the program writes mail
Mailboxes == { << >>, <<[id |-> "m-1", unread |-> TRUE]>> }

LoInit ==
    /\ \E mailbox \in Mailboxes :
          log_world = [calendar_week |-> 1, match_log |-> << >>,
                       economy_ledger |-> << >>, mailbox |-> mailbox]
    /\ log_call = [op |-> "create", ok |-> TRUE]

\* GameService.simulate_match: raises on the statistics of a club that has
\* played; otherwise the record replaces an earlier record of the match
LoSimulateMatch ==
    /\ \E match \in Range(RoundRobin(LogClubs, FALSE)), goals \in GoalLists :
         LET record == MatchRecordOf(match, goals)
             existing == SelectSeq(log_world.match_log,
                                   LAMBDA r : MatchId(r) # MatchId(record))
         IN  IF {match.home, match.away} \cap ClubsWithStats(log_world.match_log) # {}
             THEN /\ log_call' = [op |-> "simulate_match", ok |-> FALSE]
                  /\ UNCHANGED log_world
             ELSE /\ log_world' = [log_world EXCEPT
                                      !.match_log = Append(existing, record)]
                  /\ log_call' = [op |-> "simulate_match", ok |-> TRUE]
    /\ UNCHANGED loOthers

\* GameService.set_match_result
LoSetMatchResult ==
    /\ \E match \in Range(RoundRobin(LogClubs, FALSE)), payload \in Payloads :
         LET match_id == <<"league", match.round, match.home, match.away>>
         IN  IF \E i \in DOMAIN log_world.match_log :
                    MatchId(log_world.match_log[i]) = match_id
             THEN /\ log_world' = [log_world EXCEPT
                                      !.match_log = WithResult(@, match_id, payload)]
                  /\ log_call' = [op |-> "set_match_result", ok |-> TRUE]
             ELSE /\ log_call' = [op |-> "set_match_result", ok |-> FALSE]
                  /\ UNCHANGED log_world
    /\ UNCHANGED loOthers

\* GameService.next_week
LoNextWeek ==
    /\ log_world.calendar_week <= MaxLogWeeks
    /\ log_world' = [log_world EXCEPT
                        !.economy_ledger = WeeklyLedger(@, log_world.calendar_week),
                        !.calendar_week = @ + 1]
    /\ log_call' = [op |-> "next_week", ok |-> TRUE]
    /\ UNCHANGED loOthers

\* GameService.mark_mail_read
LoMarkMailRead ==
    /\ \E mail_id \in {"m-1", "m-2"} :
         IF \E i \in DOMAIN log_world.mailbox : log_world.mailbox[i].id = mail_id
         THEN /\ log_world' = [log_world EXCEPT !.mailbox =
                                  [i \in DOMAIN @ |->
                                      IF @[i].id = mail_id
                                         /\ \A j \in 1..(i - 1) : @[j].id # mail_id
                                      THEN [@[i] EXCEPT !.unread = FALSE]
                                      ELSE @[i]]]
              /\ log_call' = [op |-> "mark_mail_read", ok |-> TRUE]
         ELSE /\ log_call' = [op |-> "mark_mail_read", ok |-> FALSE]
              /\ UNCHANGED log_world
    /\ UNCHANGED loOthers

LoNext ==
    \/ LoSimulateMatch
    \/ LoSetMatchResult
    \/ LoNextWeek
    \/ LoMarkMailRead

LoSpecInit == LoInit /\ CupIdle /\ SvcIdle /\ LgIdle /\ TrIdle /\ SeIdle /\ SvIdle /\ FxIdle /\ CoIdle /\ BoIdle /\ RsIdle /\ MaIdle

SpecLogs == LoSpecInit /\ [][LoNext]_vars


(***************************************************************************)
(* Claims about the match log, the ledger and the mailbox                  *)
(***************************************************************************)

\* the entries of a list are the first entries of another, unchanged
IsPrefix(old, new) ==
    /\ Len(old) <= Len(new)
    /\ \A k \in DOMAIN old : new[k] = old[k]

\* C16: the match log, the economy ledger and the mailbox are append-only:
\* after any service operation the previous contents of each list are an
\* unchanged prefix of its new contents, and a logged MatchRecord is never
\* altered.
C16_LogsAreAppendOnly ==
    [][/\ IsPrefix(log_world.match_log, log_world'.match_log)
       /\ IsPrefix(log_world.economy_ledger, log_world'.economy_ledger)
       /\ IsPrefix(log_world.mailbox, log_world'.mailbox)]_vars

\* C17: every MatchRecord of the match log has home_goals >= 0,
\* away_goals >= 0, halftime_home <= home_goals and halftime_away <=
\* away_goals, after any league simulations and set_match_result calls.
C17_MatchRecordsAreSound ==
    \A k \in DOMAIN log_world.match_log :
        LET r == log_world.match_log[k]
        IN  /\ r.home_goals >= 0
            /\ r.away_goals >= 0
            /\ r.halftime_home <= r.home_goals
            /\ r.halftime_away <= r.away_goals


(***************************************************************************)
(*              The loop of evaluate_bot_signings, step by step            *)
(*                                                                         *)
(* One pass of the while loop is one step: the listing at idx is passed    *)
(* over (no candidates, or the draw fails) and idx moves on, or a          *)
(* candidate is drawn and purchase_listing is called.  A purchase that     *)
(* goes through pops the listing; one that raises is caught and the loop   *)
(* continues with the same idx.                                            *)
(***************************************************************************)

\* Bounds of the loop model
MaxBotListings == 2
MaxBotAttempts == 2

\* the listings a market can hold: free agents and the clubs' sellable players
BotListingPool(g) ==
    FreeAgentListings(g) \cup UNION {ClubListingsOf(g, << >>, c) : c \in Clubs}

\* the markets the loop is run on: a world in which every club has funds, and
\* the later world, in which the first club is down to 13 players, with 1 to
\* MaxBotListings different listings
BotMarkets ==
    UNION { { [g EXCEPT !.transfer_list = q] :
                q \in UNION { {r \in [1..n -> BotListingPool(g)] :
                                  \A i, j \in 1..n : i # j => r[i] # r[j]} :
                               n \in 1..MaxBotListings } } :
            g \in {FundedWorld, ApplyWeeklyFinances(LateWorld)} }

\* clubs other than the listing's own with cash above 1.3 times the price
BotCandidates(g, listing) ==
    {c \in Clubs :
        /\ ~(listing.club_name # None /\ c = listing.club_name)
        /\ g.cash_sek[c] * 10 > listing.price_sek * 13}

BoInit ==
    bot_call \in {[world |-> m, idx |-> 0, attempts |-> 0, logs |-> 0, done |-> FALSE] :
                    m \in BotMarkets}

\* no candidate, or random.random() >= chance: idx += 1
BoPassOver ==
    /\ ~bot_call.done
    /\ bot_call.idx < Len(bot_call.world.transfer_list)
    /\ bot_call' = [bot_call EXCEPT !.idx = @ + 1, !.attempts = 0]
    /\ UNCHANGED boOthers

\* a candidate is drawn and purchase_listing(gs, buyer.name, idx) is called:
\* the message is logged, or the exception is caught; either way the loop
\* continues without idx += 1
BoPurchase ==
    /\ ~bot_call.done
    /\ bot_call.idx < Len(bot_call.world.transfer_list)
    /\ bot_call.attempts < MaxBotAttempts
    /\ \E buyer \in BotCandidates(bot_call.world,
                                   bot_call.world.transfer_list[bot_call.idx + 1]) :
         IF PurchaseVerdict(bot_call.world, buyer, bot_call.idx) = "ok"
         THEN bot_call' = [bot_call EXCEPT
                             !.world = PurchaseListing(@, buyer, bot_call.idx),
                             !.logs = @ + 1,
                             !.attempts = 0]
         ELSE bot_call' = [bot_call EXCEPT !.attempts = @ + 1]
    /\ UNCHANGED boOthers

\* idx has reached the end of the list: return logs
BoReturn ==
    /\ ~bot_call.done
    /\ bot_call.idx >= Len(bot_call.world.transfer_list)
    /\ bot_call' = [bot_call EXCEPT !.done = TRUE]
    /\ UNCHANGED boOthers

BoNext ==
    \/ BoPassOver
    \/ BoPurchase
    \/ BoReturn

BoSpecInit == BoInit /\ CupIdle /\ SvcIdle /\ LgIdle /\ TrIdle /\ SeIdle /\ SvIdle /\ FxIdle /\ CoIdle /\ LoIdle /\ RsIdle /\ MaIdle

SpecBots == BoSpecInit /\ [][BoNext]_vars


(***************************************************************************)
(* Claims about the loop of evaluate_bot_signings                          *)
(***************************************************************************)

\* this step called purchase_listing
BotAttempts ==
    \/ bot_call'.attempts > bot_call.attempts
    \/ bot_call'.logs > bot_call.logs

\* C29: in one call of evaluate_bot_signings each listing is attempted at
\* most once, also when the purchase is rejected, and every successful
\* signing removes its listing from the transfer list.
C29_EachListingAttemptedOnce ==
    [][ /\ BotAttempts => bot_call.attempts = 0
        /\ bot_call'.logs > bot_call.logs =>
              bot_call'.world.transfer_list
                 = RemoveAt(bot_call.world.transfer_list, bot_call.idx + 1) ]_vars


(***************************************************************************)
(*        League fixtures simulated again, and after a rollover            *)
(*                                                                         *)
(* A career is reduced to its season, match log, league table and the      *)
(* clubs' statistics entries (played).  The service either keeps the       *)
(* GameState in memory (mock mode) or loads it from the save file at every *)
(* call, which leaves the statistics entries as dicts.  A MatchRecord has  *)
(* no season; the model notes the season a record was made in as made_in.  *)
(***************************************************************************)

\* Bounds of the model
ResimTeams == 4
MaxResimRound == 2
MaxResims == 3
MaxResimSeasons == 1

ResimClubs == [i \in 1..ResimTeams |-> i]

\* the fixtures a caller asks for: those of the first rounds of the schedule
ResimFixtures ==
    {m \in Range(RoundRobin(ResimClubs, TRUE)) : m.round <= MaxResimRound}

\* _match_record_id: competition, round, home and away
SameMatch(r, match) ==
    r.competition = "league" /\ r.round = match.round
    /\ r.home = match.home /\ r.away = match.away

\* update_stats_from_result on the entries of one club: played += 1
PlayedOnce(cmap, c) ==
    [d \in DOMAIN cmap \cup {c} |->
        IF d = c THEN (IF c \in DOMAIN cmap THEN cmap[c] + 1 ELSE 1) ELSE cmap[d]]

\* update_stats_from_result, the replacement of the record in the log and
\* _rebuild_league_table
SimulateFixture(w, match, score) ==
    LET record == [competition |-> "league", round |-> match.round,
                   home |-> match.home, away |-> match.away,
                   home_goals |-> score[1], away_goals |-> score[2],
                   made_in |-> w.season]
        existing == SelectSeq(w.match_log, LAMBDA r : ~SameMatch(r, match))
        log == Append(existing, record)
    IN  [w EXCEPT !.club_stats = PlayedOnce(PlayedOnce(@, match.home), match.away),
                  !.club_career_stats = PlayedOnce(PlayedOnce(@, match.home), match.away),
                  !.match_log = log,
                  !.table_snapshot = RebuildLeagueTable(log),
                  !.calls = @ + 1]

\* a career made by GameService.create: nothing played
CreatedCareer ==
    [in_memory |-> FALSE, season |-> 1, match_log |-> << >>,
     table_snapshot |-> << >>, club_stats |-> << >>, club_career_stats |-> << >>,
     calls |-> 0]

\* _build_mock_state: the first len(clubs) // 2 fixtures are simulated and
\* appended to the log
RECURSIVE MockRound(_, _, _)
MockRound(w, matches, scores) ==
    IF matches = << >>
    THEN w
    ELSE MockRound(SimulateFixture(w, Head(matches), Head(scores)),
                   Tail(matches), Tail(scores))

MockCareers ==
    { [MockRound([CreatedCareer EXCEPT !.in_memory = TRUE],
                 SubSeq(RoundRobin(ResimClubs, TRUE), 1, ResimTeams \div 2),
                 scores) EXCEPT !.calls = 0] :
        scores \in [1..(ResimTeams \div 2) -> Scores] }

RsInit ==
    /\ resim_world \in {CreatedCareer} \cup MockCareers
    /\ resim_call = [op |-> "create", ok |-> TRUE]

\* the statistics entry of a club is a dict: the world was loaded from the
\* file and the club has a season or career entry
EntryIsDict(w, c) ==
    ~w.in_memory /\ c \in DOMAIN w.club_stats \cup DOMAIN w.club_career_stats

\* GameService.simulate_match(match_id) for a league fixture
RsSimulateMatch ==
    /\ resim_world.calls < MaxResims
    /\ \E match \in ResimFixtures, score \in Scores :
         IF EntryIsDict(resim_world, match.home) \/ EntryIsDict(resim_world, match.away)
         THEN /\ resim_world' = [resim_world EXCEPT !.calls = @ + 1]
              /\ resim_call' = [op |-> "simulate_match", ok |-> FALSE]
         ELSE /\ resim_world' = SimulateFixture(resim_world, match, score)
              /\ resim_call' = [op |-> "simulate_match", ok |-> TRUE]
    /\ UNCHANGED rsOthers

\* GameService.end_season: the season's statistics are emptied, the table
\* is emptied, the log stays and the same fixtures are scheduled again
RsEndSeason ==
    /\ resim_world.season <= MaxResimSeasons
    /\ resim_world' = [resim_world EXCEPT !.season = @ + 1,
                                          !.club_stats = << >>,
                                          !.table_snapshot = << >>]
    /\ resim_call' = [op |-> "end_season", ok |-> TRUE]
    /\ UNCHANGED rsOthers

RsNext ==
    \/ RsSimulateMatch
    \/ RsEndSeason

RsSpecInit == RsInit /\ CupIdle /\ SvcIdle /\ LgIdle /\ TrIdle /\ SeIdle /\ SvIdle /\ FxIdle /\ CoIdle /\ LoIdle /\ BoIdle /\ MaIdle

SpecResim == RsSpecInit /\ [][RsNext]_vars


(***************************************************************************)
(* Claims about fixtures simulated again                                   *)
(***************************************************************************)

\* the records of the log made in a season
RecordsOfSeason(w, season) ==
    SelectSeq(w.match_log, LAMBDA r : r.made_in = season)

\* the records with a club
RecordsWith(log, c) == SelectSeq(log, LAMBDA r : r.home = c \/ r.away = c)

\* C25: however often a league fixture is simulated, club_stats[club].played
\* is the number of match_log records of the current season with the club.
C25_PlayedCountsLoggedMatches ==
    \A c \in Range(ResimClubs) :
        (IF c \in DOMAIN resim_world.club_stats THEN resim_world.club_stats[c] ELSE 0)
           = Len(RecordsWith(RecordsOfSeason(resim_world, resim_world.season), c))

\* this step is a simulate_match that went through
FixtureSimulated == resim_call'.op = "simulate_match" /\ resim_call'.ok

\* C26: the table simulate_match rebuilds in a season is that of the
\* season's own results, none of an earlier season, and the step removes
\* or overwrites no record of an earlier season.
C26_TableAndLogKeepSeasonsApart ==
    [][ FixtureSimulated =>
          LET own == RebuildLeagueTable(RecordsOfSeason(resim_world', resim_world'.season))
          IN  /\ DOMAIN resim_world'.table_snapshot = DOMAIN own
              /\ \A c \in DOMAIN own : resim_world'.table_snapshot[c] = own[c]
              /\ \A k \in DOMAIN resim_world.match_log :
                    resim_world.match_log[k].made_in < resim_world.season =>
                       resim_world.match_log[k] \in Range(resim_world'.match_log) ]_vars


(***************************************************************************)
(*            One simulated match: lineups, minutes and team stats         *)
(*                                                                         *)
(* A club is its roster, preferred lineup, bench order and substitution    *)
(* plan.  A player on the pitch is named by his place in the roster, as    *)
(* the code holds the Player object; the minutes are kept by player id, as *)
(* the code keeps them in a dict.  A position that is not given is "".     *)
(***************************************************************************)

\* _preferred_lineup(club, n=11)
LineupSize == 11

\* Bounds of the match model
MaxMatchGoals == 1

\* players_by_id = {p.id: p for p in club.players}: the last player with
\* the id, 0 for none
PlayerById(players, pid) ==
    IF \E i \in DOMAIN players : players[i].id = pid
    THEN CHOOSE i \in DOMAIN players :
            /\ players[i].id = pid
            /\ \A j \in DOMAIN players : players[j].id = pid => j <= i
    ELSE 0

\* the ids of the players at these places of the roster
IdsAt(players, places) == {players[places[k]].id : k \in DOMAIN places}

\* _preferred_lineup: the players named by preferred_lineup, each id once
RECURSIVE PreferredPicks(_, _, _)
PreferredPicks(players, id_order, lineup) ==
    IF id_order = << >> \/ Len(lineup) = LineupSize
    THEN lineup
    ELSE LET at == PlayerById(players, Head(id_order))
         IN  PreferredPicks(players, Tail(id_order),
                            IF at # 0 /\ players[at].id \notin IdsAt(players, lineup)
                            THEN Append(lineup, at) ELSE lineup)

\* sorted(..., key=skill_open, reverse=True): the places of a set by skill,
\* equal skills in roster order
RECURSIVE SortedBySkill(_, _)
SortedBySkill(players, places) ==
    IF places = {}
    THEN << >>
    ELSE LET best == CHOOSE i \in places : \A j \in places :
                        \/ players[i].skill_open > players[j].skill_open
                        \/ players[i].skill_open = players[j].skill_open /\ i <= j
         IN  <<best>> \o SortedBySkill(players, places \ {best})

\* _preferred_lineup: the lineup, filled up with the most skilled of the
\* players whose id is not yet used
PreferredLineup(club) ==
    LET picks == PreferredPicks(club.players, club.preferred_lineup, << >>)
        remaining == SortedBySkill(club.players,
                        {i \in DOMAIN club.players :
                            club.players[i].id \notin IdsAt(club.players, picks)})
    IN  picks \o SubSeq(remaining, 1, Min2(Len(remaining), LineupSize - Len(picks)))

\* _preferred_lineup: the bench by bench_order
RECURSIVE BenchByOrder(_, _, _, _)
BenchByOrder(players, order, bench, used) ==
    IF order = << >>
    THEN bench
    ELSE LET at == PlayerById(players, Head(order))
         IN  IF Head(order) \in used \/ at = 0
             THEN BenchByOrder(players, Tail(order), bench, used)
             ELSE BenchByOrder(players, Tail(order), Append(bench, at),
                               used \cup {players[at].id})

\* _preferred_lineup: then the rest of the roster, each unused id once
RECURSIVE BenchRest(_, _, _, _)
BenchRest(players, i, bench, used) ==
    IF i > Len(players)
    THEN bench
    ELSE IF players[i].id \in used
         THEN BenchRest(players, i + 1, bench, used)
         ELSE BenchRest(players, i + 1, Append(bench, i), used \cup {players[i].id})

PreferredBench(club) ==
    LET used == IdsAt(club.players, PreferredLineup(club))
        ordered == BenchByOrder(club.players, club.bench_order, << >>, used)
    IN  BenchRest(club.players, 1, ordered, used \cup IdsAt(club.players, ordered))

\* _pick_bench_player: the place in the bench of the player taken, 0 for none
PickBenchPlayer(players, bench, preferred_id, position) ==
    LET First(Test(_)) == CHOOSE k \in DOMAIN bench :
                              Test(k) /\ \A j \in 1..(k - 1) : ~Test(j)
        HasId(k) == players[bench[k]].id = preferred_id
        HasPosition(k) == players[bench[k]].position = position
    IN  IF preferred_id # None /\ \E k \in DOMAIN bench : HasId(k) THEN First(HasId)
        ELSE IF position # "" /\ \E k \in DOMAIN bench : HasPosition(k)
        THEN First(HasPosition)
        ELSE IF bench # << >> THEN 1 ELSE 0

\* sorted(..., key=minute): by minute, equal minutes in the order given
RECURSIVE SortByMinute(_)
SortByMinute(q) ==
    IF q = << >>
    THEN << >>
    ELSE LET first == CHOOSE i \in DOMAIN q : \A j \in DOMAIN q :
                         \/ q[i].minute < q[j].minute
                         \/ q[i].minute = q[j].minute /\ i <= j
         IN  <<q[first]>> \o SortByMinute(RemoveAt(q, first))

\* _match_rule
MatchRule(rule, player) ==
    /\ rule.player_out # None => rule.player_out = player.id
    /\ rule.position # "" => rule.position = player.position

\* _schedule_substitutions, the injuries in order of their minute: the
\* first injury rule that matches names the replacement and is used up when
\* there is one; otherwise a bench player of the injured player's position
RECURSIVE InjurySubs(_, _, _, _, _)
InjurySubs(players, injuries, bench_pool, injury_rules, scheduled) ==
    IF injuries = << >>
    THEN [bench_pool |-> bench_pool, scheduled |-> scheduled]
    ELSE LET player == players[Head(injuries).player]
             matching == {r \in DOMAIN injury_rules : MatchRule(injury_rules[r], player)}
             rule_at == IF matching = {} THEN 0
                        ELSE CHOOSE r \in matching : \A q \in matching : r <= q
             by_rule == IF rule_at = 0 THEN 0
                        ELSE PickBenchPlayer(players, bench_pool,
                                             injury_rules[rule_at].player_in,
                                             injury_rules[rule_at].position)
             taken == IF by_rule # 0 THEN by_rule
                      ELSE PickBenchPlayer(players, bench_pool, None, player.position)
         IN  IF taken = 0
             THEN InjurySubs(players, Tail(injuries), bench_pool, injury_rules, scheduled)
             ELSE InjurySubs(players, Tail(injuries), RemoveAt(bench_pool, taken),
                             IF by_rule # 0 THEN RemoveAt(injury_rules, rule_at)
                             ELSE injury_rules,
                             Append(scheduled,
                                    [minute |-> Head(injuries).minute,
                                     player_in |-> bench_pool[taken],
                                     player_out_id |-> player.id,
                                     position |-> player.position]))

\* _schedule_substitutions, the planned rules in order of their minute
RECURSIVE PlannedSubs(_, _, _, _)
PlannedSubs(players, rules, bench_pool, scheduled) ==
    IF rules = << >>
    THEN scheduled
    ELSE LET rule == Head(rules)
             taken == PickBenchPlayer(players, bench_pool, rule.player_in, rule.position)
         IN  IF taken = 0
             THEN PlannedSubs(players, Tail(rules), bench_pool, scheduled)
             ELSE PlannedSubs(players, Tail(rules), RemoveAt(bench_pool, taken),
                              Append(scheduled,
                                     [minute |-> rule.minute,
                                      player_in |-> bench_pool[taken],
                                      player_out_id |-> rule.player_out,
                                      position |-> rule.position]))

\* minutes[pid] = minutes.get(pid, 0) + duration for p in current_players
Credited(minutes, players, current, duration) ==
    [pid \in DOMAIN minutes \cup IdsAt(players, current) |->
        (IF pid \in DOMAIN minutes THEN minutes[pid] ELSE 0)
        + duration * Cardinality({k \in DOMAIN current : players[current[k]].id = pid})]

\* the place among the current players of the one who leaves: by id, then
\* by position, then the first
PlayerOut(players, current, sub) ==
    LET First(Test(_)) == CHOOSE k \in DOMAIN current :
                              Test(k) /\ \A j \in 1..(k - 1) : ~Test(j)
        HasId(k) == players[current[k]].id = sub.player_out_id
        HasPosition(k) == players[current[k]].position = sub.position
    IN  IF sub.player_out_id # None /\ \E k \in DOMAIN current : HasId(k)
        THEN First(HasId)
        ELSE IF sub.position # "" /\ \E k \in DOMAIN current : HasPosition(k)
        THEN First(HasPosition)
        ELSE IF current # << >> THEN 1 ELSE 0

\* _schedule_substitutions, the substitutions in order of their minute and
\* the minutes up to the 90th
RECURSIVE PlaySubs(_, _, _, _, _)
PlaySubs(players, scheduled, current, current_minute, minutes) ==
    IF scheduled = << >>
    THEN IF 90 - current_minute > 0
         THEN Credited(minutes, players, current, 90 - current_minute)
         ELSE minutes
    ELSE LET sub == Head(scheduled)
             minute == Max2(1, Min2(89, sub.minute))
             credited == IF minute - current_minute > 0
                         THEN Credited(minutes, players, current, minute - current_minute)
                         ELSE minutes
             out == PlayerOut(players, current, sub)
             left == IF out # 0 THEN RemoveAt(current, out) ELSE current
             entered == IF sub.player_in \in Range(left) THEN left
                        ELSE Append(left, sub.player_in)
         IN  PlaySubs(players, Tail(scheduled), entered, minute, credited)

\* _schedule_substitutions: the minutes by player id
ScheduleSubstitutions(club, lineup, bench, injuries) ==
    LET plan == club.substitution_plan
        by_injury == InjurySubs(club.players, SortByMinute(injuries), bench,
                                SelectSeq(plan, LAMBDA r : r.on_injury), << >>)
        scheduled == PlannedSubs(club.players,
                                 SortByMinute(SelectSeq(plan, LAMBDA r : ~r.on_injury)),
                                 by_injury.bench_pool, by_injury.scheduled)
        minutes == [pid \in IdsAt(club.players, lineup)
                           \cup {club.players[scheduled[k].player_in].id :
                                    k \in DOMAIN scheduled} |-> 0]
    IN  PlaySubs(club.players, SortByMinute(scheduled), lineup, 0, minutes)


\* Bounds of the match model: the draws of the random generator considered
MatchShots == {3, 10}

\* xg in tenths, within the clamp [0.2, 3.2]
MatchXg == {10, 32}

\* the penalty of a side: none awarded, scored or missed
MatchPenalties == {"none", "scored", "missed"}

\* synth_stats(goals, xg, gk_vs), shots being max(3, int(gauss)); the ratio
\* of shots on target in thousandths
SynthStats(goals, xg, shots) ==
    LET on_ratio == 300 + 4 * (xg - 10)
        shots_on == Max2(goals, (shots * Max2(220, Min2(420, on_ratio))) \div 1000)
    IN  [goals |-> goals, shots |-> shots, shots_on |-> Max2(shots_on, goals)]

\* distribute_misc: a penalty that is scored adds a goal to the stats
DistributeMisc(stats, penalty) ==
    IF penalty = "scored" THEN [stats EXCEPT !.goals = @ + 1] ELSE stats

\* _collect_injuries(lineup): the injuries considered, in lineup order: none,
\* the first starter early, or the first late and the fifth early
MatchInjuries(lineup) ==
    {<< >>}
      \cup (IF Len(lineup) >= 1 THEN {<<[player |-> lineup[1], minute |-> 10]>>} ELSE {})
      \cup (IF Len(lineup) >= 5
            THEN {<<[player |-> lineup[1], minute |-> 85],
                    [player |-> lineup[5], minute |-> 10]>>}
            ELSE {})

\* The substitution plans considered: none; one planned change at the
\* default minute; a planned change of the keeper after the 90th minute with
\* a rule for injuries
MatchPlans ==
    { << >>,
      <<[minute |-> 60, player_in |-> None, player_out |-> None,
         position |-> "", on_injury |-> FALSE]>>,
      <<[minute |-> 120, player_in |-> None, player_out |-> 1,
         position |-> "GK", on_injury |-> FALSE],
        [minute |-> 60, player_in |-> 20, player_out |-> None,
         position |-> "", on_injury |-> TRUE]>> }

\* The rosters considered: a generated squad, a squad that sold players, a
\* squad that bought players of other clubs, and an empty one
MatchRosters ==
    {GenerateClub(1), LateWorld.players[1], LateWorld.players[2], << >>}

MatchClub(players, preferred_lineup, substitution_plan) ==
    [players |-> players, preferred_lineup |-> preferred_lineup,
     bench_order |-> << >>, substitution_plan |-> substitution_plan]

HomeClubs ==
    {MatchClub(players, << >>, plan) : players \in MatchRosters, plan \in MatchPlans}
      \cup {MatchClub(players, <<12, 3, 99>>, << >>) : players \in MatchRosters}

AwayClubs == {MatchClub(players, << >>, << >>) : players \in {GenerateClub(1), << >>}}

NoStats == [goals |-> 0, shots |-> 0, shots_on |-> 0]

NoResult ==
    [raised |-> FALSE, home_lineup |-> << >>, away_lineup |-> << >>,
     home_minutes |-> << >>, away_minutes |-> << >>,
     home_stats |-> NoStats, away_stats |-> NoStats]

\* Two clubs before their match
MaInit ==
    \E home \in HomeClubs, away \in AwayClubs :
        match_call = [home |-> home, away |-> away, done |-> FALSE, result |-> NoResult]

\* simulate_match(home, away, ...): a club without players has an empty XI,
\* and random.choice of distribute_misc raises on it
MaSimulateMatch ==
    /\ ~match_call.done
    /\ LET home == match_call.home
           away == match_call.away
           lineup_home == PreferredLineup(home)
           lineup_away == PreferredLineup(away)
       IN  \E home_injuries \in MatchInjuries(lineup_home),
              goals_home \in 0..MaxMatchGoals, goals_away \in 0..MaxMatchGoals,
              shots_home \in MatchShots, shots_away \in MatchShots,
              xg_home \in MatchXg, xg_away \in MatchXg,
              penalty_home \in MatchPenalties, penalty_away \in MatchPenalties :
             LET home_minutes == ScheduleSubstitutions(home, lineup_home,
                                                       PreferredBench(home), home_injuries)
                 away_minutes == ScheduleSubstitutions(away, lineup_away,
                                                       PreferredBench(away), << >>)
                 H == SynthStats(goals_home, xg_home, shots_home)
                 A == SynthStats(goals_away, xg_away, shots_away)
             IN  match_call' =
                   [match_call EXCEPT
                      !.done = TRUE,
                      !.result =
                         IF home.players = << >> \/ away.players = << >>
                         THEN [NoResult EXCEPT !.raised = TRUE]
                         ELSE [raised |-> FALSE,
                               home_lineup |-> lineup_home,
                               away_lineup |-> lineup_away,
                               home_minutes |-> home_minutes,
                               away_minutes |-> away_minutes,
                               home_stats |-> DistributeMisc(H, penalty_home),
                               away_stats |-> DistributeMisc(A, penalty_away)]]
    /\ UNCHANGED maOthers

MaNext == MaSimulateMatch

MaSpecInit ==
    MaInit /\ CupIdle /\ SvcIdle /\ LgIdle /\ TrIdle /\ SeIdle /\ SvIdle /\ FxIdle
           /\ CoIdle /\ LoIdle /\ BoIdle /\ RsIdle

SpecMatch == MaSpecInit /\ [][MaNext]_vars

(***************************************************************************)
(*                       Claims about a simulated match                    *)
(***************************************************************************)

\* the minutes credited to the participants of a side, summed
RECURSIVE SumOver(_, _)
SumOver(minutes, pids) ==
    IF pids = {} THEN 0
    ELSE LET pid == CHOOSE x \in pids : TRUE
         IN  minutes[pid] + SumOver(minutes, pids \ {pid})

MinutesInOrder(lineup, minutes) ==
    Len(lineup) = LineupSize =>
        /\ SumOver(minutes, DOMAIN minutes) = LineupSize * 90
        /\ \A pid \in DOMAIN minutes : minutes[pid] >= 0 /\ minutes[pid] <= 90

\* C21: in every match simulated with 11 starters on a side, whatever the
\* substitution plan and the injuries, the minutes credited to the side's
\* participants sum to 11 x 90 = 990 and every participant is credited
\* between 0 and 90 minutes.
C21_MinutesSumAndRange ==
    (match_call.done /\ ~match_call.result.raised) =>
        /\ MinutesInOrder(match_call.result.home_lineup, match_call.result.home_minutes)
        /\ MinutesInOrder(match_call.result.away_lineup, match_call.result.away_minutes)

\* C22: match simulation is total: for any well-formed pair of clubs,
\* clubs with empty rosters included, simulate_match returns a result and
\* never raises; a side with an empty roster has an empty lineup and a
\* result of zeros.
C22_SimulateMatchIsTotal ==
    match_call.done =>
        /\ ~match_call.result.raised
        /\ match_call.home.players = << >> =>
              /\ match_call.result.home_lineup = << >>
              /\ match_call.result.home_stats = NoStats
        /\ match_call.away.players = << >> =>
              /\ match_call.result.away_lineup = << >>
              /\ match_call.result.away_stats = NoStats

\* C24: in the team stats of every simulated match, each side's shots_on is
\* at least its final number of goals, the goals scored from penalties
\* included.
C24_ShotsOnCoverGoals ==
    (match_call.done /\ ~match_call.result.raised) =>
        /\ match_call.result.home_stats.shots_on >= match_call.result.home_stats.goals
        /\ match_call.result.away_stats.shots_on >= match_call.result.away_stats.goals

====
